---- MODULE Spec2Model ----
(***************************************************************************)
(* Batch-accumulating queue consumers of the Platform service and the      *)
(* queue / warehouse collaborators they talk to.                           *)
(*                                                                         *)
(*   CleverTapSqsConsumer      src/src/workers/clevertap-sqs-consumer.ts   *)
(*   CleverTapSQSService       src/src/services/clevertap-sqs.service.ts   *)
(*   CleverTapRedshiftService  src/src/services/clevertap-redshift.service *)
(*   CleverTapS3PathConsumer   src/src/workers/clevertap-s3-path-consumer  *)
(*   SQSConsumer               src/unnamed/part_006 (second class)         *)
(*                                                                         *)
(* Every await of the TypeScript code is a point where other processes     *)
(* and the clock may move; the code between two awaits is one action.      *)
(***************************************************************************)
EXTENDS Integers, Sequences, FiniteSets, TLC

(***************************************************************************)
(* Bounds of the model                                                     *)
(***************************************************************************)
NumMsgs == 2
NumWorkers == 1
NumPaths == 1
MaxBatchDelay == 6
maxRetries == 3
MaxFailed == 2
NumSyncers == 2
NumHeaders == 2
MaxHeaderLen == 2

(***************************************************************************)
(* Program constants                                                       *)
(***************************************************************************)
MaxNumberOfMessages == 10
DeleteChunkSize == 10
maxWaitTime == 1
ScenarioBatchSize == 10
ScenarioMsgs == 25
StatementLimit == 500
GateCritical == 450
GateRecheck == 400
GateNearCapacity == 350
GateHighLoad == 250
GateModerateLoad == 150
RateHigh == 300
RateModerate == 200
RateLight == 100
DefaultBatchDelay == 2

Workers == 1..NumWorkers
Syncers == 1..NumSyncers
Malformed == -1
LoadStatuses == {"FINISHED", "FAILED", "TIMED_OUT"}

VARIABLES
    queue,                \* message id -> "visible" | "inflight" | "deleted"
    body,                 \* message id -> Malformed | rows in body.data (s3_path id for path messages)
    targetBatchSize,      \* CLEVERTAP_REDSHIFT_BATCH_SIZE / TARGET_BATCH_SIZE
    useCopyCommand,       \* CLEVERTAP_USE_COPY_COMMAND !== 'false'
    secondaryEnabled,     \* SECONDARY_REDSHIFT_ENABLED === 'true'
    reliable,             \* TRUE: the target always FINISHES and the providers never fail
    peers,                \* TRUE: other worker processes submit to the same target
    batchDelay,           \* BATCH_DELAY_MS, in seconds
    proc,                 \* the Node process: "up" | "closing" (gracefulShutdown awaits) | "exited"
    isRunning,            \* worker -> this.isRunning
    pc,                   \* worker -> position in start()/poll()
    elapsed,              \* worker -> Date.now() - lastBatchTime, saturated at maxWaitTime
    accumulatedEvents,    \* worker -> rows buffered (message id per row)
    receiptHandles,       \* worker -> receipt handles buffered
    batchEvents,          \* worker -> copy of the events being committed
    batchReceiptHandles,  \* worker -> copy of the handles being committed
    rowsInserted,         \* worker -> value insertBatchData resolved with, 0 outside the delete
    flushLog,             \* worker -> reason and waitTimeMs logged at the flush of the current batch
    messagesFailed,       \* worker -> this.messagesFailed, saturated at MaxFailed
    loadStatus,           \* worker -> outcome of the primary load of the current batch
    s3Messages,           \* worker -> received path messages still to process
    deleteHandles,        \* worker -> handles collected for the batch delete
    currentBatchProcessed,\* worker -> paths copied in the current receive
    filesToDelete,        \* worker -> paths scheduled for deletion
    files,                \* path -> TRUE when the staged object exists
    stagingLeft,          \* TRUE once the staging object of a COPY batch was left in S3
    accumulatedMessages,  \* worker -> messages buffered by SQSConsumer
    runningStatements,    \* worker -> count read at the gate (threshold representative), 0 outside its scope
    secondaryStatus,      \* worker -> outcome of the secondary load of the current batch
    commitResult,         \* worker -> result of the last commit
    gateDelay,            \* worker -> seconds slept at the gate for the current batch
    reads,                \* worker -> reads of the statement count for the current batch
    rateDelay,            \* worker -> seconds of the last pause after a commit
    active,               \* statements active on the primary target
    rejected,             \* TRUE once the target refused a statement over its quota
    failed,               \* messages that were in a batch whose primary load failed
    copyStatus,           \* message id -> outcome of its COPY in the current receive
    ackedOn,              \* message id -> load outcome its delete followed
    deletes,              \* message id -> number of effective deletes (saturated)
    batches,              \* sizes of the batches flushed, largest first (reliable runs)
    shortReceive,         \* a receive returned fewer messages than it could (reliable runs)
    columns,              \* the warehouse table: column name -> type
    csvHeaders,           \* header line of the sample CSV file
    spc,                  \* syncer -> position in syncSchema()
    existingColumns,      \* syncer -> column names read by getTableColumns
    missingColumns,       \* syncer -> headers found missing, in header order
    idx,                  \* syncer -> loop index i of addMissingColumns (1-based)
    totalAdded,           \* syncer -> totalAdded of the current run
    syncResult,           \* syncer -> how its last syncSchema settled
    sawExists,            \* syncer -> an ALTER of the current run was rejected as a duplicate
    synced,               \* TRUE once a syncSchema resolved
    poller,               \* the service whose polling loop runs
    responses,            \* answers of DescribeStatement to the successive polls of the job
    attempt,              \* loop index i of the polling loop (1-based)
    described,            \* DescribeStatement calls made for the job
    waitResult,           \* "polling", or how the wait settled
    syncWorker,           \* the file-based sync worker that runs
    bucket,               \* source file -> "absent", "pending" or "archived"
    syncIsRunning,        \* isRunning of the sync worker
    syncInterval,         \* the interval timer is set
    starter,              \* the run start() awaits, 0 if none
    rpc,                  \* run -> position in runSync()
    pendingFiles,         \* run -> files returned by listPendingFiles
    jsonPath,             \* run -> convertCsvFilesToJson resolved
    jsonFiles,            \* source files whose conversions are under the JSON prefix
    outcome,              \* run -> how the polling of its COPY settles
    copied,               \* run -> source files its finished COPY loaded
    timesLoaded,          \* source file -> successful runs whose COPY loaded it
    preserved,            \* files listed by a run that failed
    instanceRunning,      \* isRunning of the consumer instance start() and stop() are called on
    loopPc,               \* poll() invocation -> its position
    batchesFlushed,       \* batches the invocations of the instance have flushed
    clock,                \* Date.now() of the path consumer, in retention ticks
    lastCleanupTime,      \* lastCleanupTime of the path consumer
    deleteTimes,          \* filesToDelete: staged path -> deleteTime, NotScheduled if absent
    stagedFiles,          \* staged path -> the object is in the bucket
    loadedAt,             \* staged path -> time its last COPY finished, NotScheduled if none
    nlBucket,             \* non-lending sync: keys of the data files in the bucket
    nlPc,                 \* position of runSync()
    nlIsRunning,          \* isRunning of the non-lending worker
    allFilesProcessed,    \* the worker has marked itself complete
    totalFilesToProcess,  \* size of the first listing
    filesProcessed,       \* files of the batches counted as successful
    processedFileKeys,    \* keys marked as processed
    progressFile,         \* the saved progress file
    allFiles,             \* the listing of the current runSync()
    pendingKeys,          \* pendingFiles of the current runSync(), in listing order
    groupAt,              \* loop index i of the parallel groups (1-based)
    batchFiles,           \* slot of the parallel group -> files of its batch
    batchPc,              \* slot of the parallel group -> position of its batch
    stagingRows,          \* files whose rows are in the staging table
    inserted,             \* file -> times its rows were inserted into the final table
    finishedLoads,        \* file -> statements of its batches that FINISHED
    loadedKeys,           \* files whose batch was seen to FINISH by the worker
    restarts,             \* process restarts so far
    csvArrived,           \* CSV stream: data lines handed to the line handler so far
    csvClosed,            \* the close handler has run
    csvBatch,             \* the rows in the batch array
    flushPc,              \* flushBatch() call -> "idle", "send" or "done"
    flushChunks,          \* flushBatch() call -> chunks it has still to push
    csvSent,              \* row -> messages that carried it
    messageCount,         \* messages pushed
    streamResult,         \* settlement of the promise of streamCsvToSqs
    nextEvent,            \* S3Service: events accepted by uploadEvent so far
    batchBuffer,          \* the event buffer, a sequence of events
    batchTimer,           \* "none", "armed", or "fired" (set, but it has run)
    inFlight,             \* the event lists of the uploads awaiting PutObject
    uploadedFiles         \* the event lists of the objects written

config == <<body, targetBatchSize, useCopyCommand, secondaryEnabled, reliable, peers,
           batchDelay>>
ctLocal == <<accumulatedEvents, receiptHandles, batchEvents, batchReceiptHandles,
            rowsInserted, flushLog, messagesFailed>>
s3Local == <<s3Messages, deleteHandles, currentBatchProcessed, filesToDelete, files,
            stagingLeft>>
sqsLocal == <<accumulatedMessages, runningStatements, secondaryStatus, commitResult,
             gateDelay, reads, rateDelay>>
target == <<active, rejected>>
ghost == <<failed, copyStatus, ackedOn, deletes, batches, shortReceive>>

schema == <<columns, csvHeaders, spc, existingColumns, missingColumns, idx, totalAdded,
            syncResult, sawExists, synced>>
pipeline == <<queue, config, proc, isRunning, pc, elapsed, ctLocal, loadStatus, s3Local,
              sqsLocal, target, ghost>>

polling == <<poller, responses, attempt, described, waitResult>>

filesync == <<syncWorker, bucket, syncIsRunning, syncInterval, starter, rpc, pendingFiles,
              jsonPath, jsonFiles, outcome, copied, timesLoaded, preserved>>

lifecycle == <<instanceRunning, loopPc, batchesFlushed>>

retention == <<clock, lastCleanupTime, deleteTimes, stagedFiles, loadedAt>>

nonlending == <<nlBucket, nlPc, nlIsRunning, allFilesProcessed, totalFilesToProcess, filesProcessed, processedFileKeys, progressFile, allFiles, pendingKeys, groupAt, batchFiles, batchPc, stagingRows, inserted, finishedLoads, loadedKeys, restarts>>

csvstream == <<csvArrived, csvClosed, csvBatch, flushPc, flushChunks, csvSent, messageCount, streamResult>>

eventbuffer == <<nextEvent, batchBuffer, batchTimer, inFlight, uploadedFiles>>

aux == <<retention, nonlending, csvstream, eventbuffer>>
core == <<pipeline, schema, polling, filesync, lifecycle>>

vars == <<pipeline, schema, polling, filesync, lifecycle, aux>>

Msgs == DOMAIN queue

(***************************************************************************)
(* Helpers                                                                 *)
(***************************************************************************)
Min(a, b) == IF a < b THEN a ELSE b

MinOf(S) == CHOOSE x \in S : \A y \in S : x <= y

RECURSIVE SeqOf(_)
SeqOf(S) == IF S = {} THEN <<>> ELSE <<MinOf(S)>> \o SeqOf(S \ {MinOf(S)})

Range(s) == {s[i] : i \in 1..Len(s)}

Occurrences(s, x) == Cardinality({i \in 1..Len(s) : s[i] = x})

RECURSIVE Repeat(_, _)
Repeat(x, n) == IF n <= 0 THEN <<>> ELSE <<x>> \o Repeat(x, n - 1)

\* a log of sizes kept largest first
Logged(log, n) ==
    LET before == SelectSeq(log, LAMBDA x : x >= n)
        after == SelectSeq(log, LAMBDA x : x < n)
    IN  before \o <<n>> \o after

RECURSIVE SumSeq(_)
SumSeq(s) == IF s = <<>> THEN 0 ELSE Head(s) + SumSeq(Tail(s))

\* CleverTapSQSService.chunkArray / SQSService.chunkArray
RECURSIVE chunkArray(_, _)
chunkArray(array, chunkSize) ==
    IF Len(array) = 0 THEN <<>>
    ELSE <<SubSeq(array, 1, Min(chunkSize, Len(array)))>>
         \o chunkArray(SubSeq(array, Min(chunkSize, Len(array)) + 1, Len(array)), chunkSize)

(***************************************************************************)
(* Queue Adapter: ReceiveMessage hands out visible messages and hides      *)
(* them; a hidden message that is not deleted becomes visible again when   *)
(* its visibility timeout expires.                                         *)
(***************************************************************************)
Visible == {m \in Msgs : queue[m] = "visible"}

\* CleverTapSQSService.receiveMessages(10): up to MaxNumberOfMessages visible
\* messages, none only when no message is visible. In reliable runs the messages are alike and delivered oldest
\* first, so a receive is determined by how many it returns.
Oldest(k) == {m \in Visible : Cardinality({n \in Visible : n < m}) < k}

Receivable ==
    IF Visible = {} THEN {{}}
    ELSE IF reliable
    THEN {Oldest(k) : k \in 1..Min(MaxNumberOfMessages, Cardinality(Visible))}
    ELSE {S \in SUBSET Visible : S # {} /\ Cardinality(S) <= MaxNumberOfMessages}

\* a receive that returned fewer messages than were available to it
Short(S) == Cardinality(S) < Min(MaxNumberOfMessages, Cardinality(Visible))

Hide(S) == [m \in Msgs |-> IF m \in S THEN "inflight" ELSE queue[m]]

VisibilityTimeout(m) ==
    /\ ~reliable
    /\ queue[m] = "inflight"
    /\ queue' = [queue EXCEPT ![m] = "visible"]
    /\ UNCHANGED <<config, proc, schema, polling, filesync, lifecycle, aux, isRunning, pc, elapsed, ctLocal, loadStatus, s3Local,
                   sqsLocal, target, ghost>>

\* Date.now() advances; only the comparison with maxWaitTimeMs is observable
Tick ==
    /\ \E w \in Workers : pc[w] \notin {"idle", "exited", "killed"} /\ elapsed[w] < maxWaitTime
    /\ elapsed' = [w \in Workers |-> IF pc[w] \in {"idle", "exited", "killed"} THEN elapsed[w]
                                      ELSE Min(elapsed[w] + 1, maxWaitTime)]
    /\ UNCHANGED <<queue, config, proc, schema, polling, filesync, lifecycle, aux, isRunning, pc, ctLocal, loadStatus, s3Local,
                   sqsLocal, target, ghost>>

\* effect of DeleteMessageBatch on the queue: every entry but those in kept
\* is removed
Removed(handles, kept) ==
    [m \in Msgs |-> IF m \in Range(handles) \ kept THEN "deleted" ELSE queue[m]]

\* outcomes of one batchDeleteMessages call: the entries left in the queue
\* and whether a request rejected.  A rejected request leaves its whole
\* chunk; a request that resolves may report Failed entries.
DeleteOutcomes(handles) ==
    IF reliable THEN {[kept |-> {}, threw |-> FALSE]}
    ELSE LET chunks == chunkArray(handles, DeleteChunkSize) IN
         {o \in [kept : SUBSET Range(handles), threw : BOOLEAN] :
              o.threw => \E i \in 1..Len(chunks) : Range(chunks[i]) \subseteq o.kept}

\* ghost bookkeeping of a performed delete
Acked(handles, kept, status) ==
    [m \in Msgs |-> IF m \in Range(handles) \ kept THEN status ELSE ackedOn[m]]

\* delete requests performed per message, counted in scenario runs
CountDeletes(handles, kept) ==
    [m \in Msgs |-> IF reliable /\ m \in Range(handles) \ kept
                    THEN Min(deletes[m] + 1, 2) ELSE deletes[m]]

Loaded(handles, status) ==
    IF status = "FINISHED" THEN failed ELSE failed \cup Range(handles)

(***************************************************************************)
(* CleverTapSqsConsumer                                                    *)
(***************************************************************************)
\* start(): isRunning = true; poll() begins with empty accumulators and
\* lastBatchTime = Date.now()
start(w) ==
    /\ pc[w] \in {"idle", "exited"}
    /\ isRunning' = [isRunning EXCEPT ![w] = TRUE]
    /\ pc' = [pc EXCEPT ![w] = "loop"]
    /\ accumulatedEvents' = [accumulatedEvents EXCEPT ![w] = <<>>]
    /\ receiptHandles' = [receiptHandles EXCEPT ![w] = <<>>]
    /\ elapsed' = [elapsed EXCEPT ![w] = 0]
    /\ UNCHANGED <<queue, config, proc, schema, polling, filesync, lifecycle, aux, batchEvents, batchReceiptHandles, rowsInserted, flushLog,
                   messagesFailed, loadStatus, s3Local, sqsLocal, target, ghost>>

stop(w) ==
    /\ isRunning[w]
    /\ isRunning' = [isRunning EXCEPT ![w] = FALSE]
    /\ UNCHANGED <<queue, config, proc, schema, polling, filesync, lifecycle, aux, pc, elapsed, ctLocal, loadStatus, s3Local, sqsLocal,
                   target, ghost>>

\* gracefulShutdown() on SIGTERM / SIGINT: stop() of every worker, then
\* await fastify.close(); the poll loops are not awaited
gracefulShutdown ==
    /\ proc = "up"
    /\ proc' = "closing"
    /\ isRunning' = [w \in Workers |-> FALSE]
    /\ UNCHANGED <<queue, config, schema, polling, filesync, lifecycle, aux, pc, elapsed, ctLocal, loadStatus, s3Local,
                   sqsLocal, target, ghost>>

\* fastify.close() resolved: process.exit(0) ends every poll loop wherever
\* it stands
processExit ==
    /\ proc = "closing"
    /\ proc' = "exited"
    /\ isRunning' = [w \in Workers |-> FALSE]
    /\ pc' = [w \in Workers |-> "killed"]
    /\ UNCHANGED <<queue, config, schema, polling, filesync, lifecycle, aux, elapsed, ctLocal, loadStatus, s3Local,
                   sqsLocal, target, ghost>>

\* a loop that never looks at the flag
AlwaysContinues(running) == TRUE

\* the loop condition: while (this.isRunning)
Continues(running) == running

\* while (this.isRunning) { ... await this.sqsService.receiveMessages(10)
LoopTop(w) ==
    /\ pc[w] = "loop"
    /\ pc' = [pc EXCEPT ![w] = IF Continues(isRunning[w]) THEN "receiving" ELSE "exited"]
    /\ UNCHANGED <<queue, config, proc, schema, polling, filesync, lifecycle, aux, isRunning, elapsed, ctLocal, loadStatus, s3Local,
                   sqsLocal, target, ghost>>

\* rows a parsed message contributes; a message whose JSON.parse throws maps
\* to null and is filtered out
ParsedEvents(m) == IF body[m] = Malformed THEN <<>> ELSE Repeat(m, body[m])

\* one malformed message making the whole receive be dropped
DropsReceive(S) == IF \E m \in S : body[m] = Malformed THEN {} ELSE S

Parsed(S) == {m \in S : body[m] # Malformed}

\* this.messagesFailed after n more failures
Counted(count, n) == Min(count + n, MaxFailed)

RECURSIVE EventsOf(_)
EventsOf(ms) == IF ms = <<>> THEN <<>> ELSE ParsedEvents(Head(ms)) \o EventsOf(Tail(ms))

\* the size trigger firing only above the target
LateSizeTrigger(len, sinceLastBatch, size) ==
    len > size \/ (len > 0 /\ sinceLastBatch >= maxWaitTime)

\* the size trigger alone
SizeTriggerOnly(len, sinceLastBatch, size) == len >= size

\* the triggers without the guards on an empty buffer
UnguardedFlush(len, sinceLastBatch, size) ==
    len >= size \/ sinceLastBatch >= maxWaitTime

\* shouldFlush && accumulatedEvents.length > 0
ShouldFlush(len, sinceLastBatch, size) ==
    /\ \/ len >= size
       \/ (len > 0 /\ sinceLastBatch >= maxWaitTime)
    /\ len > 0

\* the reason decided by the time trigger first
TimeFirst(len, sinceLastBatch, size) ==
    IF sinceLastBatch >= maxWaitTime THEN "timeout" ELSE "batch_size_reached"

\* reason: accumulatedEvents.length >= targetBatchSize ? 'batch_size_reached' : 'timeout'
FlushReason(len, sinceLastBatch, size) ==
    IF len >= size THEN "batch_size_reached" ELSE "timeout"

\* receiveMessages resolves: parse, accumulate, decide; a flush copies the
\* accumulators and calls insertBatchData
ReceiveReturn(w) ==
    /\ pc[w] = "receiving"
    /\ \E S \in Receivable :
        LET events == accumulatedEvents[w] \o EventsOf(SeqOf(Parsed(S)))
            handles == receiptHandles[w] \o SeqOf(Parsed(S))
            flush == ShouldFlush(Len(events), elapsed[w], targetBatchSize)
        IN  /\ queue' = Hide(S)
            /\ accumulatedEvents' = [accumulatedEvents EXCEPT ![w] = events]
            /\ receiptHandles' = [receiptHandles EXCEPT ![w] = handles]
            /\ batchEvents' = [batchEvents EXCEPT ![w] = IF flush THEN events ELSE @]
            /\ batchReceiptHandles' = [batchReceiptHandles EXCEPT ![w] = IF flush THEN handles ELSE @]
            /\ pc' = [pc EXCEPT ![w] = IF flush THEN "load" ELSE "loop"]
            /\ flushLog' = [flushLog EXCEPT ![w] =
                  IF flush
                  THEN [reason |-> FlushReason(Len(events), elapsed[w], targetBatchSize),
                        waitTime |-> elapsed[w]]
                  ELSE @]
            /\ batches' = IF flush /\ reliable THEN Logged(batches, Len(handles)) ELSE batches
            /\ messagesFailed' = [messagesFailed EXCEPT
                                     ![w] = Counted(@, Cardinality(S \ Parsed(S)))]
            /\ shortReceive' = (shortReceive \/ (reliable /\ Short(S)))
    /\ UNCHANGED <<config, proc, schema, polling, filesync, lifecycle, aux, isRunning, elapsed, rowsInserted, loadStatus, s3Local, sqsLocal,
                   target, failed, copyStatus, ackedOn, deletes>>

\* receiveMessages rejects: outer catch, 5 s pause, next iteration
ReceiveThrows(w) ==
    /\ ~reliable
    /\ pc[w] = "receiving"
    /\ pc' = [pc EXCEPT ![w] = "backoff"]
    /\ UNCHANGED <<queue, config, proc, schema, polling, filesync, lifecycle, aux, isRunning, elapsed, ctLocal, loadStatus, s3Local,
                   sqsLocal, target, ghost>>

\* the 5 s sleep of the outer catch ends
BackoffWake(w) ==
    /\ pc[w] = "backoff"
    /\ pc' = [pc EXCEPT ![w] = "loop"]
    /\ UNCHANGED <<queue, config, proc, schema, polling, filesync, lifecycle, aux, isRunning, elapsed, ctLocal, loadStatus, s3Local,
                   sqsLocal, target, ghost>>

\* CleverTapRedshiftService: value insertBatchData resolves with after the
\* statement FINISHED with `reported` ResultRows for `n` submitted events
RowsInserted(copy, reported, n) ==
    IF copy THEN (IF reported > 0 THEN reported ELSE n) ELSE reported

\* what DescribeStatement can answer: the job still running, one of its terminal
\* states, or the call itself rejecting ("ERROR")
JobTerminal == {"FINISHED", "FAILED", "ABORTED"}

\* answers to the successive polls of one job: it turns terminal at poll `at`
\* (never when at > maxRetries) and the calls in `errs` reject
Responses(terminal, at, errs) ==
    [i \in 1..maxRetries |-> IF i \in errs THEN "ERROR"
                             ELSE IF i >= at THEN terminal ELSE "STARTED"]

Describes ==
    {Responses(t, at, errs) : t \in JobTerminal, at \in 1..(maxRetries + 1),
                              errs \in SUBSET (1..maxRetries)}

\* the loop running out of retries resolving instead of raising
ResolvesAfterLastRetry == "FINISHED"

\* after the loop: throw new Error('Timeout waiting ...')
AfterLastRetry == "TIMED_OUT"

\* iteration i of the loop of CleverTapRedshiftService on the answer of
\* DescribeStatement: the throw for FAILED and ABORTED is inside the try, so
\* that the catch receives it as it does a rejected describe, and rethrows
\* on the last iteration only
Iteration(response, i) ==
    IF response = "FINISHED" THEN "FINISHED"
    ELSE IF response \in {"FAILED", "ABORTED", "ERROR"} /\ i = maxRetries THEN "FAILED"
    ELSE "continue"

\* an iteration of CleverTapS3PathConsumer.waitForCopyCompletion: FAILED
\* throws, a rejected describe propagates, ABORTED is not tested
CopyIteration(response) ==
    IF response = "FINISHED" THEN "FINISHED"
    ELSE IF response \in {"FAILED", "ERROR"} THEN "FAILED"
    ELSE "continue"

\* an iteration of RedshiftService.waitForStatementCompletion: FAILED and
\* ABORTED throw, a rejected describe propagates
StatementIteration(response) ==
    IF response = "FINISHED" THEN "FINISHED"
    ELSE IF response \in {"FAILED", "ABORTED", "ERROR"} THEN "FAILED"
    ELSE "continue"

Pollers == {"CleverTapRedshiftService", "CleverTapS3PathConsumer", "RedshiftService"}

\* one iteration of the polling loop of the service: DescribeStatement
\* settles, the loop returns, throws or goes on, and throws the timeout once
\* the retries are used up
DescribeReturn ==
    /\ waitResult = "polling"
    /\ LET r == IF poller = "CleverTapRedshiftService"
                THEN Iteration(responses[attempt], attempt)
                ELSE IF poller = "CleverTapS3PathConsumer"
                THEN CopyIteration(responses[attempt])
                ELSE StatementIteration(responses[attempt])
       IN  waitResult' = IF r # "continue" THEN r
                         ELSE IF attempt = maxRetries THEN AfterLastRetry
                         ELSE "polling"
    /\ described' = described + 1
    /\ attempt' = attempt + 1
    /\ UNCHANGED <<pipeline, schema, filesync, lifecycle, aux, poller, responses>>

\* waitForStatementCompletion from poll i on: FINISHED returns; FAILED, ABORTED
\* and a rejected describe are caught inside the loop and polling goes on, the
\* error being rethrown only on the last iteration
RECURSIVE waitForStatementCompletion(_, _)
waitForStatementCompletion(answers, i) ==
    IF i > maxRetries THEN AfterLastRetry
    ELSE IF Iteration(answers[i], i) # "continue" THEN Iteration(answers[i], i)
    ELSE waitForStatementCompletion(answers, i + 1)

\* outcomes of the primary load of n events: terminal status and ResultRows
LoadOutcomes(n) ==
    IF reliable THEN {[status |-> "FINISHED", rows |-> n]}
    ELSE {[status |-> waitForStatementCompletion(r, 1), rows |-> k] :
              r \in Describes, k \in {0, n}}

\* consumer's decision after insertBatchData resolved
DeleteAfterInsert(rows) == rows > 0

\* the accumulators surviving a commit that did not delete
KeepsBuffer(buffer) == buffer

\* accumulatedEvents = []; receiptHandles = [] of the else branch and of the
\* inner catch
Reset(buffer) == <<>>

\* insertBatchData settles with the statement's status and the ResultRows
\* reported.  Rejection (FAILED, TIMED_OUT): inner catch resets the
\* accumulators.  Resolution: delete when rowsInserted > 0, otherwise only
\* reset.
Settle(w, status, reported) ==
    LET threw == Len(batchEvents[w]) = 0 \/ status # "FINISHED"
        rows == RowsInserted(useCopyCommand, reported, Len(batchEvents[w]))
        ack == ~threw /\ DeleteAfterInsert(rows)
    IN  /\ loadStatus' = [loadStatus EXCEPT ![w] = status]
        /\ failed' = Loaded(batchReceiptHandles[w], status)
        /\ pc' = [pc EXCEPT ![w] = IF ack THEN "delete" ELSE "loop"]
        /\ accumulatedEvents' = [accumulatedEvents EXCEPT ![w] = IF ack THEN @ ELSE Reset(@)]
        /\ receiptHandles' = [receiptHandles EXCEPT ![w] = IF ack THEN @ ELSE Reset(@)]
        /\ batchEvents' = [batchEvents EXCEPT ![w] = IF ack THEN @ ELSE <<>>]
        /\ batchReceiptHandles' = [batchReceiptHandles EXCEPT ![w] = IF ack THEN @ ELSE <<>>]
        /\ elapsed' = [elapsed EXCEPT ![w] = IF ack THEN @ ELSE 0]
        /\ rowsInserted' = [rowsInserted EXCEPT ![w] = IF ack THEN rows ELSE 0]
        /\ flushLog' = [flushLog EXCEPT ![w] = IF ack THEN @ ELSE [reason |-> "none", waitTime |-> 0]]
        /\ messagesFailed' = [messagesFailed EXCEPT
              ![w] = IF ack THEN @ ELSE Counted(@, Len(batchReceiptHandles[w]))]

\* waitForStatementCompletion settles.  INSERT mode: insertBatchData settles
\* with it.  COPY mode: the staging object is deleted first, on the success
\* path and in the catch alike.
LoadReturn(w) ==
    /\ pc[w] = "load"
    /\ \E o \in LoadOutcomes(Len(batchEvents[w])) :
        IF useCopyCommand
        THEN /\ loadStatus' = [loadStatus EXCEPT ![w] = o.status]
             /\ rowsInserted' = [rowsInserted EXCEPT ![w] = o.rows]
             /\ pc' = [pc EXCEPT ![w] = "stagingCleanup"]
             /\ UNCHANGED <<accumulatedEvents, receiptHandles, batchEvents,
                            batchReceiptHandles, flushLog, messagesFailed, elapsed, failed>>
        ELSE Settle(w, o.status, o.rows)
    /\ UNCHANGED <<queue, config, proc, schema, polling, filesync, lifecycle, aux, isRunning, s3Local, sqsLocal, target, copyStatus,
                   ackedOn, deletes, batches, shortReceive>>

\* a failed delete of the staging object failing the load
CleanupFailurePropagates(status, cleaned) == IF cleaned THEN status ELSE "FAILED"

\* outcome of insertBatchDataWithCopy after the DeleteObject of the staging
\* object: its rejection is caught, logged or ignored, never rethrown
AfterCleanup(status, cleaned) == status

\* the DeleteObject of the staging object settles and insertBatchData with it
CleanupReturn(w) ==
    /\ pc[w] = "stagingCleanup"
    /\ \E cleaned \in (IF reliable THEN {TRUE} ELSE BOOLEAN) :
        /\ stagingLeft' = (stagingLeft \/ ~cleaned)
        /\ Settle(w, AfterCleanup(loadStatus[w], cleaned), rowsInserted[w])
    /\ UNCHANGED <<queue, config, proc, schema, polling, filesync, lifecycle, aux, isRunning, s3Messages, deleteHandles,
                   currentBatchProcessed, filesToDelete, files, sqsLocal, target,
                   copyStatus, ackedOn, deletes, batches, shortReceive>>

\* ghost bookkeeping of the entries a delete left in the queue
Undeleted(acks, kept) == [m \in Msgs |-> IF m \in kept THEN "UNDELETED" ELSE acks[m]]

\* a rejected delete ending the poll loop
StopsOnDeleteError(threw) == IF threw THEN "exited" ELSE "loop"

\* where poll() goes on after batchDeleteMessages settled: the inner catch
\* handles its rejection and the loop continues
AfterDelete(threw) == "loop"

\* batchDeleteMessages settles; resolved or rejected, the accumulators are
\* reset and lastBatchTime = Date.now()
DeleteReturn(w) ==
    /\ pc[w] = "delete"
    /\ \E o \in DeleteOutcomes(batchReceiptHandles[w]) :
        /\ queue' = Removed(batchReceiptHandles[w], o.kept)
        /\ ackedOn' = Undeleted(Acked(batchReceiptHandles[w], o.kept, loadStatus[w]), o.kept)
        /\ deletes' = CountDeletes(batchReceiptHandles[w], o.kept)
        /\ messagesFailed' = [messagesFailed EXCEPT
              ![w] = IF o.threw THEN Counted(@, Len(batchReceiptHandles[w])) ELSE @]
        /\ pc' = [pc EXCEPT ![w] = AfterDelete(o.threw)]
    /\ rowsInserted' = [rowsInserted EXCEPT ![w] = 0]
    /\ flushLog' = [flushLog EXCEPT ![w] = [reason |-> "none", waitTime |-> 0]]
    /\ accumulatedEvents' = [accumulatedEvents EXCEPT ![w] = <<>>]
    /\ receiptHandles' = [receiptHandles EXCEPT ![w] = <<>>]
    /\ batchEvents' = [batchEvents EXCEPT ![w] = <<>>]
    /\ batchReceiptHandles' = [batchReceiptHandles EXCEPT ![w] = <<>>]
    /\ elapsed' = [elapsed EXCEPT ![w] = 0]
    /\ UNCHANGED <<config, proc, schema, polling, filesync, lifecycle, aux, isRunning, loadStatus, s3Local, sqsLocal, target, failed,
                   copyStatus, batches, shortReceive>>

(***************************************************************************)
(* CleverTapS3PathConsumer: every message names a staged file (s3_path);   *)
(* each file is loaded by its own COPY statement.                          *)
(***************************************************************************)
NoPath == 0

\* receiveMessages resolves with messages: currentBatchProcessed.clear(),
\* deleteHandles = []; with none the iteration ends
S3ReceiveReturn(w) ==
    /\ pc[w] = "receiving"
    /\ \E S \in Receivable :
        /\ queue' = Hide(S)
        /\ s3Messages' = [s3Messages EXCEPT ![w] = SeqOf(S)]
        /\ pc' = [pc EXCEPT ![w] = IF S = {} THEN "loop" ELSE "process"]
        /\ currentBatchProcessed' = [currentBatchProcessed EXCEPT ![w] = IF S = {} THEN @ ELSE {}]
        /\ deleteHandles' = [deleteHandles EXCEPT ![w] = <<>>]
        /\ copyStatus' = [m \in Msgs |-> IF m \in S THEN "none" ELSE copyStatus[m]]
    /\ UNCHANGED <<config, proc, schema, polling, filesync, lifecycle, aux, isRunning, elapsed, ctLocal, loadStatus, filesToDelete, files, stagingLeft,
                   sqsLocal, target, failed, ackedOn, deletes, batches, shortReceive>>

\* outcomes of copyFromS3 for an existing file: waitForCopyCompletion
\* resolves on FINISHED and rejects on FAILED or after maxRetries
CopyOutcomes == IF reliable THEN {"FINISHED"} ELSE LoadStatuses

\* whether the handle of a message is pushed to deleteHandles, by the way
\* its processing ended
PushesHandle(how) ==
    how \in {"invalid", "duplicate", "missing", "FINISHED", "FAILED", "TIMED_OUT", "parse_error"}

\* how the processing of message m ends, given the outcome of a COPY
ProcessResult(w, m, copy) ==
    IF body[m] = Malformed THEN "parse_error"
    ELSE IF body[m] = NoPath THEN "invalid"
    ELSE IF body[m] \in currentBatchProcessed[w] THEN "duplicate"
    ELSE IF ~files[body[m]] THEN "missing"
    ELSE copy

\* one iteration of  for (const message of messages)
ProcessMessage(w) ==
    /\ pc[w] = "process"
    /\ s3Messages[w] # <<>>
    /\ \E copy \in CopyOutcomes :
        LET m == Head(s3Messages[w])
            how == ProcessResult(w, m, copy)
        IN  /\ deleteHandles' = [deleteHandles EXCEPT ![w] =
                                    IF PushesHandle(how) THEN Append(@, m) ELSE @]
            /\ currentBatchProcessed' = [currentBatchProcessed EXCEPT ![w] =
                                    IF how = "FINISHED" THEN @ \cup {body[m]} ELSE @]
            /\ filesToDelete' = [filesToDelete EXCEPT ![w] =
                                    IF how = "FINISHED" THEN @ \cup {body[m]} ELSE @]
            /\ copyStatus' = [copyStatus EXCEPT ![m] =
                                    IF how \in LoadStatuses THEN how ELSE "not_attempted"]
    /\ s3Messages' = [s3Messages EXCEPT ![w] = Tail(@)]
    /\ UNCHANGED <<queue, config, proc, schema, polling, filesync, lifecycle, aux, isRunning, pc, elapsed, ctLocal, loadStatus, files, stagingLeft,
                   sqsLocal, target, failed, ackedOn, deletes, batches, shortReceive>>

\* if (deleteHandles.length > 0) await batchDeleteMessages(deleteHandles)
S3DeleteCall(w) ==
    /\ pc[w] = "process"
    /\ s3Messages[w] = <<>>
    /\ pc' = [pc EXCEPT ![w] = IF Len(deleteHandles[w]) > 0 THEN "delete" ELSE "cleanup"]
    /\ UNCHANGED <<queue, config, proc, schema, polling, filesync, lifecycle, aux, isRunning, elapsed, ctLocal, loadStatus, s3Local,
                   sqsLocal, target, ghost>>

\* batchDeleteMessages settles; a rejection is caught by the poll loop
S3DeleteReturn(w) ==
    /\ pc[w] = "delete"
    /\ \E o \in DeleteOutcomes(deleteHandles[w]) :
        /\ queue' = Removed(deleteHandles[w], o.kept)
        /\ ackedOn' = [m \in Msgs |-> IF m \in Range(deleteHandles[w]) \ o.kept
                                      THEN copyStatus[m] ELSE ackedOn[m]]
        /\ deletes' = CountDeletes(deleteHandles[w], o.kept)
        /\ pc' = [pc EXCEPT ![w] = IF o.threw THEN "loop" ELSE "cleanup"]
    /\ UNCHANGED <<config, proc, schema, polling, filesync, lifecycle, aux, isRunning, elapsed, ctLocal, loadStatus, s3Local, sqsLocal,
                   target, failed, copyStatus, batches, shortReceive>>

\* cleanupOldFiles(): when the cleanup interval has passed, the scheduled
\* files whose deleteTime has passed (due) are deleted
cleanupOldFiles(w) ==
    /\ pc[w] = "cleanup"
    /\ \E due \in SUBSET filesToDelete[w] :
        /\ files' = [p \in DOMAIN files |-> IF p \in due THEN FALSE ELSE files[p]]
        /\ filesToDelete' = [filesToDelete EXCEPT ![w] = @ \ due]
    /\ pc' = [pc EXCEPT ![w] = "loop"]
    /\ UNCHANGED <<queue, config, proc, schema, polling, filesync, lifecycle, aux, isRunning, elapsed, ctLocal, loadStatus, s3Messages,
                   deleteHandles, currentBatchProcessed, stagingLeft, sqsLocal, target,
                   ghost>>

(***************************************************************************)
(* SQSConsumer with the backpressure gate, committing through the dual     *)
(* sink RedshiftService                                                    *)
(***************************************************************************)
GateThresholds == {RateLight, GateModerateLoad, RateModerate, GateHighLoad, RateHigh,
                   GateNearCapacity, GateRecheck, GateCritical}

MaxOf(S) == CHOOSE x \in S : \A y \in S : x >= y

\* runningStatements is only compared with the thresholds: the model keeps
\* the least count that compares like the count read
Quantize(c) ==
    IF \E t \in GateThresholds : c > t
    THEN MaxOf({t \in GateThresholds : c > t}) + 1
    ELSE 0

\* RedshiftService.getRunningStatementCount(): statements active on the
\* primary target at the time of the read
getRunningStatementCount == active

\* shouldProcessBatch
ShouldProcessBatch(len, sinceLastBatch, size) ==
    \/ len >= size
    \/ (len > 0 /\ sinceLastBatch >= maxWaitTime)

\* seconds slept after the first read of the count
FirstDelay(running) ==
    IF running > GateCritical THEN 30
    ELSE IF running > GateNearCapacity THEN 20
    ELSE IF running > GateHighLoad THEN 10
    ELSE IF running > GateModerateLoad THEN 3
    ELSE 0

\* seconds slept after the re-check that follows the 30 s pause
SecondDelay(recheck) == IF recheck > GateRecheck THEN 30 ELSE 0

\* seconds slept after a successful commit
RateLimitDelay(running, base) ==
    IF running > RateHigh THEN 15
    ELSE IF running > RateModerate THEN 10
    ELSE IF running > RateLight THEN 5
    ELSE base

\* no second read of the count
NeverRechecks(running) == FALSE

\* the count is read once more after the pause of the highest tier only
Rechecks(running) == running > GateCritical

\* receiveMessages resolves: parse, accumulate, decide; a due batch first
\* awaits getRunningStatementCount
SQSReceiveReturn(w) ==
    /\ pc[w] = "receiving"
    /\ \E S \in Receivable :
        LET messages == accumulatedMessages[w] \o SeqOf(Parsed(S))
            due == ShouldProcessBatch(Len(messages), elapsed[w], targetBatchSize)
        IN  /\ queue' = Hide(S)
            /\ accumulatedMessages' = [accumulatedMessages EXCEPT ![w] = messages]
            /\ pc' = [pc EXCEPT ![w] = IF due THEN "gateRead" ELSE "loop"]
            /\ messagesFailed' = [messagesFailed EXCEPT
                                     ![w] = Counted(@, Cardinality(S \ Parsed(S)))]
    /\ UNCHANGED <<config, proc, schema, polling, filesync, lifecycle, aux, isRunning, elapsed, accumulatedEvents, receiptHandles,
                   batchEvents, batchReceiptHandles, rowsInserted, flushLog, loadStatus, s3Local,
                   runningStatements, secondaryStatus, commitResult, gateDelay, reads,
                   rateDelay, target, ghost>>

\* insertBatchData is called: the statement is handed to the primary
\* target, which admits it unless StatementLimit statements are active
Submit(w) ==
    /\ pc' = [pc EXCEPT ![w] = "load"]
    /\ loadStatus' = [loadStatus EXCEPT ![w] =
                        IF active < StatementLimit THEN "SUBMITTED" ELSE "REJECTED"]
    /\ active' = IF active < StatementLimit THEN active + 1 ELSE active
    /\ rejected' = (rejected \/ active >= StatementLimit)

NoSubmit == UNCHANGED <<loadStatus, target>>

\* getRunningStatementCount resolves: pause by the count, or submit at once
GateRead(w) ==
    /\ pc[w] = "gateRead"
    /\ LET running == getRunningStatementCount IN
        /\ runningStatements' = [runningStatements EXCEPT ![w] = Quantize(running)]
        /\ gateDelay' = [gateDelay EXCEPT ![w] = FirstDelay(running)]
        /\ reads' = [reads EXCEPT ![w] = 1]
        /\ IF FirstDelay(running) > 0
           THEN pc' = [pc EXCEPT ![w] = "gateSleep"] /\ NoSubmit
           ELSE Submit(w)
    /\ UNCHANGED <<queue, config, proc, schema, polling, filesync, lifecycle, aux, isRunning, elapsed, ctLocal, s3Local, accumulatedMessages,
                   secondaryStatus, commitResult, rateDelay, ghost>>

\* the pause ends: after the 30 s pause the count is read again, after the
\* shorter ones the batch is submitted
GateWake(w) ==
    /\ pc[w] = "gateSleep"
    /\ IF Rechecks(runningStatements[w])
       THEN pc' = [pc EXCEPT ![w] = "gateRecheck"] /\ NoSubmit
       ELSE Submit(w)
    /\ UNCHANGED <<queue, config, proc, schema, polling, filesync, lifecycle, aux, isRunning, elapsed, ctLocal, s3Local, sqsLocal, ghost>>

\* the re-check resolves: one more 30 s pause when still above GateRecheck
GateRecheckReturn(w) ==
    /\ pc[w] = "gateRecheck"
    /\ LET recheck == getRunningStatementCount IN
        /\ gateDelay' = [gateDelay EXCEPT ![w] = @ + SecondDelay(recheck)]
        /\ reads' = [reads EXCEPT ![w] = @ + 1]
        /\ IF SecondDelay(recheck) > 0
           THEN pc' = [pc EXCEPT ![w] = "gateSleep2"] /\ NoSubmit
           ELSE Submit(w)
    /\ UNCHANGED <<queue, config, proc, schema, polling, filesync, lifecycle, aux, isRunning, elapsed, ctLocal, s3Local, accumulatedMessages,
                   runningStatements, secondaryStatus, commitResult, rateDelay, ghost>>

GateWake2(w) ==
    /\ pc[w] = "gateSleep2"
    /\ Submit(w)
    /\ UNCHANGED <<queue, config, proc, schema, polling, filesync, lifecycle, aux, isRunning, elapsed, ctLocal, s3Local, sqsLocal, ghost>>

\* Fan-out Coordinator: result of a commit from the outcomes of the two
\* loads; the secondary is "disabled" when not enabled
CommitResult(primary, secondary) ==
    IF primary # "FINISHED" THEN "FAILED"
    ELSE IF secondary \in {"FINISHED", "disabled"} THEN "SUCCESS"
    ELSE "PARTIAL_SUCCESS"

\* insertBatchData rejects exactly when the commit FAILED
InsertBatchThrows(result) == result = "FAILED"

PrimaryOutcomes(w) ==
    IF loadStatus[w] = "REJECTED" THEN {"FAILED"}
    ELSE IF reliable THEN {"FINISHED"} ELSE LoadStatuses

SecondaryOutcomes ==
    IF ~secondaryEnabled THEN {"disabled"}
    ELSE IF reliable THEN {"FINISHED"} ELSE LoadStatuses

\* delete whatever insertBatchData did
DeleteAlways(threw) == TRUE

\* delete only after a rejection
DeleteOnRejection(threw) == threw

\* consumer's decision once insertBatchData settled
DeleteAfterCommit(threw) == ~threw

\* insertBatchData settles: both loads are terminal.  Resolved: the
\* handles of the batch go to batchDeleteMessages.  Rejected: the catch
\* clears the accumulator.
SQSLoadReturn(w) ==
    /\ pc[w] = "load"
    /\ \E p \in PrimaryOutcomes(w), sec \in SecondaryOutcomes :
        LET result == CommitResult(p, sec)
            ack == DeleteAfterCommit(InsertBatchThrows(result))
        IN  /\ active' = IF loadStatus[w] = "SUBMITTED" THEN active - 1 ELSE active
            /\ loadStatus' = [loadStatus EXCEPT ![w] = p]
            /\ secondaryStatus' = [secondaryStatus EXCEPT ![w] = sec]
            /\ commitResult' = [commitResult EXCEPT ![w] = result]
            /\ failed' = Loaded(accumulatedMessages[w], p)
            /\ pc' = [pc EXCEPT ![w] = IF ack THEN "delete" ELSE "loop"]
            /\ accumulatedMessages' = [accumulatedMessages EXCEPT ![w] = IF ack THEN @ ELSE <<>>]
            /\ elapsed' = [elapsed EXCEPT ![w] = IF ack THEN @ ELSE 0]
            /\ runningStatements' = [runningStatements EXCEPT ![w] = IF ack THEN @ ELSE 0]
            /\ messagesFailed' = [messagesFailed EXCEPT
                  ![w] = IF ack THEN @ ELSE Counted(@, Len(accumulatedMessages[w]))]
    /\ reads' = [reads EXCEPT ![w] = 0]
    /\ gateDelay' = [gateDelay EXCEPT ![w] = 0]
    /\ UNCHANGED <<queue, config, proc, schema, polling, filesync, lifecycle, aux, isRunning, accumulatedEvents, receiptHandles,
                   batchEvents, batchReceiptHandles, rowsInserted, flushLog, s3Local, rateDelay, rejected,
                   copyStatus, ackedOn, deletes, batches, shortReceive>>

\* batchDeleteMessages settles.  Resolved: clear, then the rate-limit
\* pause.  Rejected: the catch clears the accumulator.
SQSDeleteReturn(w) ==
    /\ pc[w] = "delete"
    /\ \E o \in DeleteOutcomes(accumulatedMessages[w]) :
        /\ queue' = Removed(accumulatedMessages[w], o.kept)
        /\ ackedOn' = Acked(accumulatedMessages[w], o.kept, loadStatus[w])
        /\ deletes' = CountDeletes(accumulatedMessages[w], o.kept)
        /\ pc' = [pc EXCEPT ![w] = IF o.threw THEN "loop" ELSE "rateLimit"]
        /\ rateDelay' = [rateDelay EXCEPT ![w] =
                            IF o.threw THEN @
                            ELSE RateLimitDelay(runningStatements[w], batchDelay)]
        /\ runningStatements' = [runningStatements EXCEPT ![w] = IF o.threw THEN 0 ELSE @]
        /\ messagesFailed' = [messagesFailed EXCEPT
              ![w] = IF o.threw THEN Counted(@, Len(accumulatedMessages[w])) ELSE @]
    /\ accumulatedMessages' = [accumulatedMessages EXCEPT ![w] = <<>>]
    /\ elapsed' = [elapsed EXCEPT ![w] = 0]
    /\ UNCHANGED <<config, proc, schema, polling, filesync, lifecycle, aux, isRunning, accumulatedEvents, receiptHandles, batchEvents,
                   batchReceiptHandles, rowsInserted, flushLog, loadStatus, s3Local, secondaryStatus,
                   commitResult, gateDelay, reads, target, failed, copyStatus, batches,
                   shortReceive>>

\* the pause after the commit (rateDelay seconds) ends
RateLimitWake(w) ==
    /\ pc[w] = "rateLimit"
    /\ pc' = [pc EXCEPT ![w] = "loop"]
    /\ runningStatements' = [runningStatements EXCEPT ![w] = 0]
    /\ rateDelay' = [rateDelay EXCEPT ![w] = 0]
    /\ UNCHANGED <<queue, config, proc, schema, polling, filesync, lifecycle, aux, isRunning, elapsed, ctLocal, loadStatus, s3Local,
                   accumulatedMessages, secondaryStatus, commitResult, gateDelay, reads,
                   target, ghost>>

\* the other SQSConsumer processes of the deployment: each has passed its
\* own gate when it submits; the target completes their statements
PeerSubmit ==
    /\ peers
    /\ active < StatementLimit
    /\ active' = active + 1
    /\ UNCHANGED <<queue, config, proc, schema, polling, filesync, lifecycle, aux, isRunning, pc, elapsed, ctLocal, loadStatus, s3Local,
                   sqsLocal, rejected, ghost>>

OwnStatements == Cardinality({w \in Workers : pc[w] = "load" /\ loadStatus[w] = "SUBMITTED"})

PeerComplete ==
    /\ peers
    /\ active > OwnStatements
    /\ active' = active - 1
    /\ UNCHANGED <<queue, config, proc, schema, polling, filesync, lifecycle, aux, isRunning, pc, elapsed, ctLocal, loadStatus, s3Local,
                   sqsLocal, rejected, ghost>>

(***************************************************************************)
(* SchemaSyncService: reads the header line of a CSV file and the columns   *)
(* of the table and adds a VARCHAR column for every header it finds         *)
(* missing.  Names are sequences of one-character strings.                  *)
(***************************************************************************)
Letters == {"a", "b", "A", "B"}
Digits == {"1"}
Alphabet == {"a", "B", "-", "1"}

\* String.prototype.toLowerCase
LowerChar(c) == IF c = "A" THEN "a" ELSE IF c = "B" THEN "b" ELSE c

toLowerCase(str) == [i \in 1..Len(str) |-> LowerChar(str[i])]

\* .replace(/[^a-zA-Z0-9_]/g, '_')
ReplaceSpecial(str) ==
    [i \in 1..Len(str) |-> IF str[i] \in Letters \cup Digits \cup {"_"} THEN str[i] ELSE "_"]

\* .replace(/^[0-9]/, '_$&')
PrefixDigit(str) == IF str # <<>> /\ str[1] \in Digits THEN <<"_">> \o str ELSE str

\* .replace(/_+/g, '_')
RECURSIVE CollapseUnderscores(_)
CollapseUnderscores(str) ==
    IF Len(str) < 2 THEN str
    ELSE IF str[1] = "_" /\ str[2] = "_" THEN CollapseUnderscores(Tail(str))
    ELSE <<str[1]>> \o CollapseUnderscores(Tail(str))

\* safeColumnName of a header
safeColumnName(column) ==
    toLowerCase(CollapseUnderscores(PrefixDigit(ReplaceSpecial(column))))

\* if (!safeColumnName || safeColumnName === '_') continue
Skipped(name) == name = <<>> \/ name = <<"_">>

\* the header lines a file can have
RECURSIVE StringsOf(_)
StringsOf(n) ==
    IF n = 0 THEN {<<>>}
    ELSE StringsOf(n - 1) \cup {Append(str, c) : str \in StringsOf(n - 1), c \in Alphabet}

HeaderLines == [1..NumHeaders -> StringsOf(MaxHeaderLen)]

\* missingColumns: the headers whose lower-cased text is no existing column
missing(headers, existing) ==
    SelectSeq(headers, LAMBDA h : toLowerCase(h) \notin {toLowerCase(c) : c \in existing})

\* index of the first header from i on that is not skipped
RECURSIVE NextColumn(_, _)
NextColumn(columnsToAdd, i) ==
    IF i > Len(columnsToAdd) THEN i
    ELSE IF Skipped(safeColumnName(columnsToAdd[i])) THEN NextColumn(columnsToAdd, i + 1)
    ELSE i

\* a statement that drops the column before adding it
ReplaceColumn(name) == [kind |-> "REPLACE", column |-> name, type |-> "VARCHAR"]

\* ALTER TABLE ${tableName} ADD COLUMN ${safeColumnName} VARCHAR(65535)
AlterTable(name) == [kind |-> "ADD", column |-> name, type |-> "VARCHAR"]

\* the table after the warehouse ran a statement to its end
Executed(table, stmt) ==
    [c \in DOMAIN table \cup {stmt.column} |-> IF c = stmt.column THEN stmt.type ELSE table[c]]

\* what waitForQuery can settle with for a statement and the table it
\* leaves: FINISHED, a rejection by the warehouse (a duplicate column for an
\* ADD of an existing one, or any other error), or the timeout after 60
\* polls of a statement that may still be applied
Settlements(table, stmt) ==
    (IF stmt.kind = "ADD" /\ stmt.column \in DOMAIN table
     THEN {[error |-> "already exists", table |-> table]}
     ELSE {[error |-> "none", table |-> Executed(table, stmt)],
           [error |-> "timeout", table |-> Executed(table, stmt)]})
    \cup {[error |-> "failed", table |-> table], [error |-> "timeout", table |-> table]}

\* a duplicate column failing the run
AlreadyExistsRethrown(message) == FALSE

\* the handler matching a text the warehouse does not send
DuplicateColumn(message) == message = "duplicate column"

\* catch: error.message?.includes('already exists')
AlreadyExists(message) == message = "already exists"

\* syncSchema(): getCsvHeaders resolved, getTableColumns is awaited
syncSchema(s) ==
    /\ spc[s] \in {"idle", "done"}
    /\ spc' = [spc EXCEPT ![s] = "getTableColumns"]
    /\ syncResult' = [syncResult EXCEPT ![s] = "none"]
    /\ totalAdded' = [totalAdded EXCEPT ![s] = 0]
    /\ sawExists' = [sawExists EXCEPT ![s] = FALSE]
    /\ UNCHANGED <<pipeline, polling, filesync, lifecycle, aux, columns, csvHeaders, existingColumns, missingColumns, idx,
                   synced>>

\* getTableColumns resolves with the columns of the table; addMissingColumns
\* returns 0 at once when nothing is missing or every missing header is
\* skipped, and otherwise submits its first ALTER
GetTableColumnsReturn(s) ==
    /\ spc[s] = "getTableColumns"
    /\ LET columnsToAdd == missing(csvHeaders, DOMAIN columns)
           first == NextColumn(columnsToAdd, 1)
           over == first > Len(columnsToAdd)
       IN  /\ existingColumns' = [existingColumns EXCEPT ![s] = DOMAIN columns]
           /\ missingColumns' = [missingColumns EXCEPT ![s] = IF over THEN <<>> ELSE columnsToAdd]
           /\ idx' = [idx EXCEPT ![s] = IF over THEN 0 ELSE first]
           /\ spc' = [spc EXCEPT ![s] = IF over THEN "done" ELSE "waitForQuery"]
           /\ syncResult' = [syncResult EXCEPT ![s] = IF over THEN "resolved" ELSE @]
           /\ synced' = (synced \/ over)
    /\ UNCHANGED <<pipeline, polling, filesync, lifecycle, aux, columns, csvHeaders, totalAdded, sawExists>>

\* getTableColumns rejects: syncSchema rejects
GetTableColumnsThrows(s) ==
    /\ spc[s] = "getTableColumns"
    /\ spc' = [spc EXCEPT ![s] = "done"]
    /\ syncResult' = [syncResult EXCEPT ![s] = "failed"]
    /\ UNCHANGED <<pipeline, polling, filesync, lifecycle, aux, columns, csvHeaders, existingColumns, missingColumns, idx,
                   totalAdded, sawExists, synced>>

\* the ALTER of missingColumns[i] settles: counted when it FINISHED or was
\* rejected as a duplicate, rethrown otherwise; then the next ALTER or the
\* end of the run
WaitForQueryReturn(s) ==
    /\ spc[s] = "waitForQuery"
    /\ \E o \in Settlements(columns, AlterTable(safeColumnName(missingColumns[s][idx[s]]))) :
        LET counted == o.error = "none" \/ AlreadyExists(o.error)
            next == NextColumn(missingColumns[s], idx[s] + 1)
            over == next > Len(missingColumns[s])
        IN  /\ columns' = o.table
            /\ totalAdded' = [totalAdded EXCEPT ![s] = IF counted THEN @ + 1 ELSE @]
            /\ sawExists' = [sawExists EXCEPT ![s] = @ \/ o.error = "already exists"]
            /\ idx' = [idx EXCEPT ![s] = IF counted /\ ~over THEN next ELSE 0]
            /\ missingColumns' = [missingColumns EXCEPT ![s] = IF counted /\ ~over THEN @ ELSE <<>>]
            /\ spc' = [spc EXCEPT ![s] = IF counted /\ ~over THEN "waitForQuery" ELSE "done"]
            /\ syncResult' = [syncResult EXCEPT ![s] =
                                IF ~counted THEN o.error
                                ELSE IF over THEN "resolved" ELSE @]
            /\ synced' = (synced \/ (counted /\ over))
    /\ UNCHANGED <<pipeline, polling, filesync, lifecycle, aux, csvHeaders, existingColumns>>

(***************************************************************************)
(* Initial states                                                          *)
(***************************************************************************)
\* no schema sync: an empty table, nothing to read
SchemaIdle ==
    /\ columns = <<>>
    /\ csvHeaders = <<>>
    /\ spc = [s \in Syncers |-> "idle"]
    /\ existingColumns = [s \in Syncers |-> {}]
    /\ missingColumns = [s \in Syncers |-> <<>>]
    /\ idx = [s \in Syncers |-> 0]
    /\ totalAdded = [s \in Syncers |-> 0]
    /\ syncResult = [s \in Syncers |-> "none"]
    /\ sawExists = [s \in Syncers |-> FALSE]
    /\ synced = FALSE

\* no wait in progress
RetentionIdle ==
    /\ clock = 0
    /\ lastCleanupTime = 0
    /\ deleteTimes = <<>>
    /\ stagedFiles = <<>>
    /\ loadedAt = <<>>

NonLendingIdle ==
    /\ nlBucket = {}
    /\ nlPc = "idle"
    /\ nlIsRunning = FALSE
    /\ allFilesProcessed = FALSE
    /\ totalFilesToProcess = 0
    /\ filesProcessed = 0
    /\ processedFileKeys = {}
    /\ progressFile = <<>>
    /\ allFiles = {}
    /\ pendingKeys = <<>>
    /\ groupAt = 0
    /\ batchFiles = <<>>
    /\ batchPc = <<>>
    /\ stagingRows = {}
    /\ inserted = <<>>
    /\ finishedLoads = <<>>
    /\ loadedKeys = {}
    /\ restarts = 0

CsvStreamIdle ==
    /\ csvArrived = 0
    /\ csvClosed = FALSE
    /\ csvBatch = <<>>
    /\ flushPc = <<>>
    /\ flushChunks = <<>>
    /\ csvSent = <<>>
    /\ messageCount = 0
    /\ streamResult = "pending"

EventBufferIdle ==
    /\ nextEvent = 0
    /\ batchBuffer = <<>>
    /\ batchTimer = "none"
    /\ inFlight = {}
    /\ uploadedFiles = <<>>

AuxIdle ==
    /\ RetentionIdle
    /\ NonLendingIdle
    /\ CsvStreamIdle
    /\ EventBufferIdle

LifecycleIdle ==
    /\ instanceRunning = FALSE
    /\ loopPc = <<>>
    /\ batchesFlushed = 0

FileSyncIdle ==
    /\ syncWorker = "none"
    /\ bucket = <<>>
    /\ syncIsRunning = FALSE
    /\ syncInterval = FALSE
    /\ starter = 0
    /\ rpc = <<>>
    /\ pendingFiles = <<>>
    /\ jsonPath = <<>>
    /\ jsonFiles = {}
    /\ outcome = <<>>
    /\ copied = <<>>
    /\ timesLoaded = <<>>
    /\ preserved = {}

PollingIdle ==
    /\ poller = "none"
    /\ responses = <<>>
    /\ attempt = 0
    /\ described = 0
    /\ waitResult = "none"

NoFlush == [reason |-> "none", waitTime |-> 0]

InitWorkers ==
    /\ proc = "up"
    /\ isRunning = [w \in Workers |-> FALSE]
    /\ pc = [w \in Workers |-> "idle"]
    /\ elapsed = [w \in Workers |-> 0]
    /\ accumulatedEvents = [w \in Workers |-> <<>>]
    /\ receiptHandles = [w \in Workers |-> <<>>]
    /\ batchEvents = [w \in Workers |-> <<>>]
    /\ batchReceiptHandles = [w \in Workers |-> <<>>]
    /\ rowsInserted = [w \in Workers |-> 0]
    /\ flushLog = [w \in Workers |-> NoFlush]
    /\ messagesFailed = [w \in Workers |-> 0]
    /\ loadStatus = [w \in Workers |-> "none"]
    /\ s3Messages = [w \in Workers |-> <<>>]
    /\ deleteHandles = [w \in Workers |-> <<>>]
    /\ currentBatchProcessed = [w \in Workers |-> {}]
    /\ filesToDelete = [w \in Workers |-> {}]
    /\ accumulatedMessages = [w \in Workers |-> <<>>]
    /\ runningStatements = [w \in Workers |-> 0]
    /\ secondaryStatus = [w \in Workers |-> "none"]
    /\ commitResult = [w \in Workers |-> "none"]
    /\ gateDelay = [w \in Workers |-> 0]
    /\ reads = [w \in Workers |-> 0]
    /\ rateDelay = [w \in Workers |-> 0]
    /\ rejected = FALSE
    /\ stagingLeft = FALSE

InitQueue(ids) ==
    /\ queue = [m \in ids |-> "visible"]
    /\ failed = {}
    /\ copyStatus = [m \in ids |-> "none"]
    /\ ackedOn = [m \in ids |-> "none"]
    /\ deletes = [m \in ids |-> 0]
    /\ batches = <<>>
    /\ shortReceive = FALSE

\* CleverTap row messages: message 0 has a malformed body, odd messages
\* carry a single row, even messages a rows array of two
Init ==
    /\ InitWorkers
    /\ SchemaIdle
    /\ PollingIdle
    /\ FileSyncIdle
    /\ LifecycleIdle
    /\ AuxIdle
    /\ active = 0
    /\ InitQueue(0..NumMsgs)
    /\ body = [m \in 0..NumMsgs |-> IF m = 0 THEN Malformed ELSE IF m % 2 = 0 THEN 2 ELSE 1]
    /\ files = <<>>
    /\ targetBatchSize = 2
    /\ useCopyCommand \in BOOLEAN
    /\ secondaryEnabled = FALSE
    /\ reliable = FALSE
    /\ peers = FALSE
    /\ batchDelay = DefaultBatchDelay

\* path messages: message 0 is malformed or names no path, the others name
\* one of NumPaths staged files, present or not
InitS3Path ==
    /\ InitWorkers
    /\ SchemaIdle
    /\ PollingIdle
    /\ FileSyncIdle
    /\ LifecycleIdle
    /\ AuxIdle
    /\ active = 0
    /\ InitQueue(0..NumMsgs)
    /\ body \in {b \in [0..NumMsgs -> {Malformed, NoPath} \cup 1..NumPaths] :
                    /\ b[0] \in {Malformed, NoPath}
                    /\ \A m \in 1..NumMsgs : b[m] \in 1..NumPaths}
    /\ files \in [1..NumPaths -> BOOLEAN]
    /\ targetBatchSize = 1
    /\ useCopyCommand = TRUE
    /\ secondaryEnabled = FALSE
    /\ reliable = FALSE
    /\ peers = FALSE
    /\ batchDelay = DefaultBatchDelay

NextS3Path ==
    \/ \E w \in Workers : start(w)
    \/ \E w \in Workers : stop(w)
    \/ \E w \in Workers : LoopTop(w)
    \/ \E w \in Workers : S3ReceiveReturn(w)
    \/ \E w \in Workers : ReceiveThrows(w)
    \/ \E w \in Workers : BackoffWake(w)
    \/ \E w \in Workers : ProcessMessage(w)
    \/ \E w \in Workers : S3DeleteCall(w)
    \/ \E w \in Workers : S3DeleteReturn(w)
    \/ \E w \in Workers : cleanupOldFiles(w)
    \/ \E m \in Msgs : VisibilityTimeout(m)

SpecS3Path == InitS3Path /\ [][NextS3Path]_vars

\* message 0 is malformed, the others are events; the primary target
\* already runs the statements of the other workers (PeerLoads)
PeerLoads == {0, GateModerateLoad + 1, GateHighLoad + 1, GateNearCapacity + 1,
              GateRecheck + 1, GateCritical + 1}

InitSQS ==
    /\ InitWorkers
    /\ SchemaIdle
    /\ PollingIdle
    /\ FileSyncIdle
    /\ LifecycleIdle
    /\ AuxIdle
    /\ InitQueue(0..NumMsgs)
    /\ body = [m \in 0..NumMsgs |-> IF m = 0 THEN Malformed ELSE 1]
    /\ files = <<>>
    /\ active \in PeerLoads
    /\ targetBatchSize = 2
    /\ useCopyCommand = FALSE
    /\ secondaryEnabled \in BOOLEAN
    /\ reliable = FALSE
    /\ peers = FALSE
    /\ batchDelay = DefaultBatchDelay

NextSQS ==
    \/ \E w \in Workers : start(w)
    \/ \E w \in Workers : stop(w)
    \/ \E w \in Workers : LoopTop(w)
    \/ \E w \in Workers : SQSReceiveReturn(w)
    \/ \E w \in Workers : ReceiveThrows(w)
    \/ \E w \in Workers : BackoffWake(w)
    \/ \E w \in Workers : GateRead(w)
    \/ \E w \in Workers : GateWake(w)
    \/ \E w \in Workers : GateRecheckReturn(w)
    \/ \E w \in Workers : GateWake2(w)
    \/ \E w \in Workers : SQSLoadReturn(w)
    \/ \E w \in Workers : SQSDeleteReturn(w)
    \/ \E w \in Workers : RateLimitWake(w)
    \/ \E m \in Msgs : VisibilityTimeout(m)
    \/ Tick

SpecSQS == InitSQS /\ [][NextSQS]_vars

\* the counts at and next to the thresholds
Counts == {0} \cup GateThresholds \cup {t + 1 : t \in GateThresholds}

\* one event message and batches of one, for every configured base delay
\* and every tier of the count
InitDelay ==
    /\ InitWorkers
    /\ SchemaIdle
    /\ PollingIdle
    /\ FileSyncIdle
    /\ LifecycleIdle
    /\ AuxIdle
    /\ InitQueue({1})
    /\ body = [m \in {1} |-> 1]
    /\ files = <<>>
    /\ active \in Counts
    /\ targetBatchSize = 1
    /\ useCopyCommand = FALSE
    /\ secondaryEnabled = FALSE
    /\ reliable = TRUE
    /\ peers = FALSE
    /\ batchDelay \in 0..MaxBatchDelay

NextDelay ==
    \/ \E w \in Workers : start(w)
    \/ \E w \in Workers : LoopTop(w)
    \/ \E w \in Workers : SQSReceiveReturn(w)
    \/ \E w \in Workers : GateRead(w)
    \/ \E w \in Workers : GateWake(w)
    \/ \E w \in Workers : GateRecheckReturn(w)
    \/ \E w \in Workers : GateWake2(w)
    \/ \E w \in Workers : SQSLoadReturn(w)
    \/ \E w \in Workers : SQSDeleteReturn(w)
    \/ \E w \in Workers : RateLimitWake(w)

SpecDelay == InitDelay /\ [][NextDelay]_vars

\* one event message, batches of one, and the peers submitting and
\* completing statements while the worker runs
InitGate ==
    /\ InitWorkers
    /\ SchemaIdle
    /\ PollingIdle
    /\ FileSyncIdle
    /\ LifecycleIdle
    /\ AuxIdle
    /\ InitQueue({1})
    /\ body = [m \in {1} |-> 1]
    /\ files = <<>>
    /\ active = 0
    /\ targetBatchSize = 1
    /\ useCopyCommand = FALSE
    /\ secondaryEnabled = FALSE
    /\ reliable = FALSE
    /\ peers = TRUE
    /\ batchDelay = DefaultBatchDelay

NextGate ==
    \/ \E w \in Workers : start(w)
    \/ \E w \in Workers : LoopTop(w)
    \/ \E w \in Workers : SQSReceiveReturn(w)
    \/ \E w \in Workers : GateRead(w)
    \/ \E w \in Workers : GateWake(w)
    \/ \E w \in Workers : GateRecheckReturn(w)
    \/ \E w \in Workers : GateWake2(w)
    \/ \E w \in Workers : SQSLoadReturn(w)
    \/ \E w \in Workers : SQSDeleteReturn(w)
    \/ \E w \in Workers : RateLimitWake(w)
    \/ \E m \in Msgs : VisibilityTimeout(m)
    \/ PeerSubmit
    \/ PeerComplete

SpecGate == InitGate /\ [][NextGate]_vars

\* the end-to-end scenario: ScenarioMsgs single-event messages, batches of
\* ScenarioBatchSize, one worker, every load FINISHED and every delete done
InitScenario ==
    /\ InitWorkers
    /\ SchemaIdle
    /\ PollingIdle
    /\ FileSyncIdle
    /\ LifecycleIdle
    /\ AuxIdle
    /\ InitQueue(1..ScenarioMsgs)
    /\ body = [m \in 1..ScenarioMsgs |-> 1]
    /\ files = <<>>
    /\ active = 0
    /\ targetBatchSize = ScenarioBatchSize
    /\ useCopyCommand \in BOOLEAN
    /\ secondaryEnabled = FALSE
    /\ reliable = TRUE
    /\ peers = FALSE
    /\ batchDelay = DefaultBatchDelay

NextScenario ==
    \/ start(1)
    \/ LoopTop(1)
    \/ ReceiveReturn(1)
    \/ LoadReturn(1)
    \/ CleanupReturn(1)
    \/ DeleteReturn(1)
    \/ Tick

SpecScenario == InitScenario /\ [][NextScenario]_vars

\* a consumer-less run: no message, no worker started
PipelineIdle ==
    /\ InitWorkers
    /\ InitQueue({})
    /\ body = <<>>
    /\ files = <<>>
    /\ active = 0
    /\ targetBatchSize = 1
    /\ useCopyCommand = FALSE
    /\ secondaryEnabled = FALSE
    /\ reliable = FALSE
    /\ peers = FALSE
    /\ batchDelay = DefaultBatchDelay

\* a statement was submitted by one of the services and its wait begins
InitPoll ==
    /\ PipelineIdle
    /\ SchemaIdle
    /\ FileSyncIdle
    /\ LifecycleIdle
    /\ AuxIdle
    /\ poller \in Pollers
    /\ responses \in Describes
    /\ attempt = 1
    /\ described = 0
    /\ waitResult = "polling"

NextPoll == DescribeReturn

SpecPoll == InitPoll /\ [][NextPoll]_vars

\* the table starts empty or with the DATE columns "a" and "a_"; the same
\* file is the sample of every run
InitSchema ==
    /\ PipelineIdle
    /\ PollingIdle
    /\ FileSyncIdle
    /\ LifecycleIdle
    /\ AuxIdle
    /\ columns \in {<<>>, [c \in {<<"a">>, <<"a", "_">>} |-> "DATE"]}
    /\ csvHeaders \in HeaderLines
    /\ spc = [s \in Syncers |-> "idle"]
    /\ existingColumns = [s \in Syncers |-> {}]
    /\ missingColumns = [s \in Syncers |-> <<>>]
    /\ idx = [s \in Syncers |-> 0]
    /\ totalAdded = [s \in Syncers |-> 0]
    /\ syncResult = [s \in Syncers |-> "none"]
    /\ sawExists = [s \in Syncers |-> FALSE]
    /\ synced = FALSE

NextSchema ==
    \/ \E s \in Syncers : syncSchema(s)
    \/ \E s \in Syncers : GetTableColumnsReturn(s)
    \/ \E s \in Syncers : GetTableColumnsThrows(s)
    \/ \E s \in Syncers : WaitForQueryReturn(s)

SpecSchema == InitSchema /\ [][NextSchema]_vars

Next ==
    \/ \E w \in Workers : start(w)
    \/ \E w \in Workers : stop(w)
    \/ \E w \in Workers : LoopTop(w)
    \/ \E w \in Workers : ReceiveReturn(w)
    \/ \E w \in Workers : ReceiveThrows(w)
    \/ \E w \in Workers : BackoffWake(w)
    \/ \E w \in Workers : LoadReturn(w)
    \/ \E w \in Workers : CleanupReturn(w)
    \/ \E w \in Workers : DeleteReturn(w)
    \/ \E m \in Msgs : VisibilityTimeout(m)
    \/ Tick
    \/ gracefulShutdown
    \/ processExit

Spec == Init /\ [][Next]_vars

(***************************************************************************)
(* Properties                                                              *)
(***************************************************************************)
\* the messages that name a staged file, each a batch of its own COPY
Staged == {m \in Msgs : body[m] \notin {Malformed, NoPath}}

\* C1: a message is deleted from the queue if and only if the primary load
\* of its batch reached FINISHED: no message is deleted after a load that
\* failed, timed out or was never attempted, and once the commit of a
\* batch whose load reached FINISHED is over its messages are deleted.
\* Violated by CleverTapS3PathConsumer.
C1_DeletedIffPrimaryFinished ==
    \A m \in Staged :
        /\ queue[m] = "deleted" => ackedOn[m] = "FINISHED"
        /\ \A w \in Workers :
              (pc[w] = "cleanup" /\ m \in Range(deleteHandles[w])
                 /\ copyStatus[m] = "FINISHED") => queue[m] = "deleted"

\* a batch of the consumer w is partially acknowledged by the step
PartiallyAcked(w) ==
    /\ pc[w] = "delete"
    /\ pc'[w] \notin {"delete", "killed"}
    /\ \E m, n \in Range(batchReceiptHandles[w]) :
          queue'[m] = "deleted" /\ queue'[n] # "deleted"

\* C2: a batch is never partially acknowledged: when batchDeleteMessages
\* has settled, either every message of the batch is deleted or none is.
\* Violated by CleverTapSqsConsumer.
C2_NeverPartiallyAcked == [][\A w \in Workers : ~PartiallyAcked(w)]_vars

\* the load of a batch of w settles in the step
LoadSettles(w) ==
    /\ pc[w] \in {"load", "stagingCleanup"}
    /\ pc'[w] \notin {"load", "stagingCleanup", "killed"}

\* C5: when the primary load of a batch FAILED its messages stay un-acked,
\* and when a later load of messages that failed before reaches FINISHED
\* their delete is issued.  Violated by CleverTapSqsConsumer in INSERT mode.
C5_AckedOnLaterFinished ==
    [][\A w \in Workers : LoadSettles(w) =>
          /\ loadStatus'[w] # "FINISHED" =>
                (pc'[w] # "delete" /\ queue' = queue)
          /\ (loadStatus'[w] = "FINISHED"
                /\ Range(batchReceiptHandles[w]) \cap failed # {}) =>
                (pc'[w] = "delete" /\ batchReceiptHandles'[w] = batchReceiptHandles[w])]_vars

\* a receive of w returns in the step
ReceiveReturns(w) == pc[w] = "receiving" /\ pc'[w] \in {"load", "loop"}

\* C7: when a receive has returned, the buffer is flushed exactly when its
\* count has reached targetBatchSize or it is non-empty and maxWaitTime has
\* passed since the last flush, and the batch is the whole buffer: N
\* buffered events make one batch of N, fewer after the wait one smaller
\* batch.
C7_FlushTriggers ==
    [][\A w \in Workers : ReceiveReturns(w) =>
          LET n == Len(accumulatedEvents'[w]) IN
          /\ pc'[w] = "load" <=>
                (n >= targetBatchSize \/ (n > 0 /\ elapsed[w] >= maxWaitTime))
          /\ pc'[w] = "load" =>
                /\ batchEvents'[w] = accumulatedEvents'[w]
                /\ batchReceiptHandles'[w] = receiptHandles'[w]]_vars

\* the time trigger has flushed a batch smaller than targetBatchSize
C7_Witness ==
    \E w \in Workers :
        /\ pc[w] = "load"
        /\ Len(batchEvents[w]) \in 1..(targetBatchSize - 1)
        /\ elapsed[w] >= maxWaitTime

\* C8: no flush produces an empty batch: insertBatchData is never called
\* with zero events and a batch to delete is never empty.
C8_NoEmptyBatch ==
    \A w \in Workers :
        pc[w] \in {"load", "stagingCleanup", "delete"} =>
            (Len(batchEvents[w]) > 0 /\ Len(batchReceiptHandles[w]) > 0)

\* a receive of only the malformed message has returned after maxWaitTime
\* with nothing buffered, and nothing was flushed
C8_Witness ==
    \E w \in Workers :
        /\ pc[w] = "loop"
        /\ accumulatedEvents[w] = <<>>
        /\ elapsed[w] >= maxWaitTime
        /\ queue[0] = "inflight"
        /\ \A m \in Msgs \ {0} : queue[m] = "visible"

\* the deliveries a worker holds, buffered or in the batch being committed
Held(w) ==
    IF pc[w] \in {"load", "stagingCleanup", "delete"} THEN batchReceiptHandles[w]
    ELSE receiptHandles[w]

\* C9: a message is part of at most one batch at a time: it is never held
\* twice by one worker nor by two workers at once.  Violated by
\* CleverTapSqsConsumer when a buffered message is redelivered.
C9_AtMostOneBatch ==
    /\ \A w \in Workers : \A m \in Msgs : Occurrences(Held(w), m) <= 1
    /\ \A v, w \in Workers : v # w => Range(Held(v)) \cap Range(Held(w)) = {}

Unsuccessful == {"FAILED", "TIMED_OUT"}

C4_SecondaryFailureIsolated ==
    [][\A w \in Workers :
          (LoadSettles(w) /\ loadStatus'[w] = "FINISHED"
             /\ secondaryStatus'[w] \in Unsuccessful) =>
              /\ commitResult'[w] = "PARTIAL_SUCCESS"
              /\ pc'[w] = "delete"
              /\ accumulatedMessages'[w] = accumulatedMessages[w]]_vars

\* a batch committed with PARTIAL_SUCCESS has been deleted from the queue
C4_Witness ==
    \E w \in Workers :
        /\ commitResult[w] = "PARTIAL_SUCCESS"
        /\ secondaryStatus[w] \in Unsuccessful
        /\ pc[w] = "rateLimit"
        /\ \E m \in Msgs : queue[m] = "deleted" /\ ackedOn[m] = "FINISHED"

AllDeleted == \A m \in Msgs : queue[m] = "deleted"

\* the batches of the scenario when every batch is cut at the target size
ExpectedBatches ==
    Repeat(ScenarioBatchSize, ScenarioMsgs \div ScenarioBatchSize)
        \o (IF ScenarioMsgs % ScenarioBatchSize = 0 THEN <<>>
            ELSE <<ScenarioMsgs % ScenarioBatchSize>>)

InBatch(w) ==
    IF pc[w] \in {"load", "stagingCleanup", "delete"} THEN Len(batchReceiptHandles[w])
    ELSE 0

C10_WithinAdmissionLimit ==
    /\ active <= StatementLimit
    /\ \A w \in Workers : loadStatus[w] # "REJECTED"

\* C11: the delay applied before a submission is non-decreasing in the
\* reported count: the pause a worker takes at the gate or after a commit
\* is not greater than the pause for any higher count, for every configured
\* base delay.  Violated by the pause after a commit when BATCH_DELAY_MS is
\* above 5 s.
C11_DelayNonDecreasing ==
    \A w \in Workers : \A b \in Counts :
        b >= runningStatements[w] =>
            /\ pc[w] = "gateSleep" => gateDelay[w] <= FirstDelay(b)
            /\ pc[w] = "rateLimit" => rateDelay[w] <= RateLimitDelay(b, batchDelay)

C13_GateBeforeCommit ==
    \A w \in Workers : pc[w] = "load" => reads[w] >= 1

\* the polls of a job that is in no terminal state at any of them
NeverTerminal == {r \in Describes : \A i \in 1..maxRetries : r[i] = "STARTED"}

\* C14: a load whose job has reached no terminal state within maxRetries
\* polls is reported TIMED_OUT, and the consumer handles TIMED_OUT exactly
\* as FAILED: insertBatchData rejects, no delete is issued, the messages
\* stay in flight and the accumulators are reset.
C14_TimeoutAsFailure ==
    /\ [](\A r \in NeverTerminal : waitForStatementCompletion(r, 1) = "TIMED_OUT")
    /\ [][\A w \in Workers :
            (LoadSettles(w) /\ loadStatus'[w] \in Unsuccessful) =>
                /\ pc'[w] = "loop"
                /\ queue' = queue
                /\ accumulatedEvents'[w] = <<>>
                /\ receiptHandles'[w] = <<>>]_vars

\* a load has timed out and an event message of its batch is still in flight
C14_Witness ==
    \E w \in Workers :
        /\ loadStatus[w] = "TIMED_OUT"
        /\ pc[w] = "loop"
        /\ receiptHandles[w] = <<>>
        /\ \E m \in failed : queue[m] = "inflight"

\* C15: whenever the primary load reaches FINISHED the load counts as a
\* success even with zero reported rows: insertBatchData resolves with the
\* submitted count as the effective count and the delete of the batch is
\* issued.  Violated by CleverTapSqsConsumer in INSERT mode.
C15_ZeroRowsIsSuccess ==
    [][\A w \in Workers :
          (LoadSettles(w) /\ loadStatus'[w] = "FINISHED") =>
              /\ pc'[w] = "delete"
              /\ rowsInserted'[w] = Len(batchEvents[w])
              /\ messagesFailed'[w] = messagesFailed[w]]_vars

\* the DeleteObject of the staging object of w settles in the step
CleanupSettles(w) ==
    pc[w] = "stagingCleanup" /\ pc'[w] \notin {"stagingCleanup", "killed"}

\* C16: a failure to delete the staging object never changes the outcome of
\* the load: whether or not the object could be deleted, a FINISHED load
\* resolves with a positive count and the delete of the batch is issued, and
\* a FAILED or TIMED_OUT load rejects with that outcome, the messages left
\* in flight.
C16_CleanupNeverChangesOutcome ==
    [][\A w \in Workers : CleanupSettles(w) =>
          /\ loadStatus'[w] = loadStatus[w]
          /\ loadStatus[w] = "FINISHED" =>
                (pc'[w] = "delete" /\ rowsInserted'[w] = Len(batchEvents[w]))
          /\ loadStatus[w] \in Unsuccessful =>
                (pc'[w] = "loop" /\ queue' = queue)]_vars

\* a staging object was left behind and the batch of a FINISHED load has
\* been deleted from the queue none the less
C16_Witness ==
    /\ stagingLeft
    /\ \E w \in Workers : loadStatus[w] = "FINISHED" /\ pc[w] = "loop"
    /\ \A m \in Msgs \ {0} : queue[m] = "deleted" /\ ackedOn[m] = "FINISHED"
    /\ failed = {}

\* the messages handed out by the receive that returns in the step
Received == {m \in Msgs : queue[m] = "visible" /\ queue'[m] = "inflight"}

\* C17: a malformed message is dropped and counted and never blocks the
\* batch: when a receive returns, messagesFailed grows by the number of
\* malformed messages received, none of them is buffered, and every
\* well-formed message of the same receive is buffered with its rows, to be
\* flushed and deleted as any other.
C17_MalformedDropped ==
    [][\A w \in Workers : ReceiveReturns(w) =>
          LET good == {m \in Received : body[m] # Malformed} IN
          /\ messagesFailed'[w] = Min(messagesFailed[w] + Cardinality(Received \ good),
                                      MaxFailed)
          /\ receiptHandles'[w] = receiptHandles[w] \o SeqOf(good)
          /\ \A m \in Msgs :
                Occurrences(accumulatedEvents'[w], m) =
                    Occurrences(accumulatedEvents[w], m)
                        + (IF m \in good THEN body[m] ELSE 0)]_vars

\* the malformed message was received, counted and dropped, and every
\* well-formed message has been loaded and deleted
C17_Witness ==
    \E w \in Workers :
        /\ queue[0] = "inflight"
        /\ messagesFailed[w] = 1
        /\ failed = {}
        /\ \A m \in Msgs \ {0} : queue[m] = "deleted" /\ ackedOn[m] = "FINISHED"

\* C18: after a commit fails the consumer does not retry the batch from
\* memory: it clears its buffer and goes back to the loop without touching
\* the queue, and a message enters its memory only through a receive of a
\* visible message, so that the failed messages are loaded again only once
\* the queue has redelivered them.
C18_NoRetryFromMemory ==
    [][\A w \in Workers :
          /\ (LoadSettles(w) /\ loadStatus'[w] \in Unsuccessful) =>
                /\ Held(w)' = <<>>
                /\ accumulatedEvents'[w] = <<>>
                /\ pc'[w] = "loop"
                /\ \A m \in Range(Held(w)) : queue'[m] = "inflight" \/ queue'[m] = queue[m]
          /\ \A m \in Range(Held(w)') \ Range(Held(w)) :
                pc[w] = "receiving" /\ queue[m] = "visible"]_vars

\* a message whose load failed has been redelivered and is in the batch
\* being loaded
C18_Witness ==
    \E w \in Workers :
        /\ pc[w] = "load"
        /\ Range(batchReceiptHandles[w]) \cap failed # {}

\* the commit of a batch of w is in flight
Committing(w) == pc[w] \in {"load", "stagingCleanup", "delete"}

\* C19: after a shutdown signal a commit that is in flight is allowed to
\* finish before the process exits: the process never exits while a worker
\* awaits the outcome of its load or the delete that follows it.  Violated:
\* gracefulShutdown calls process.exit(0) without awaiting the poll loops.
C19_InFlightCommitFinishes ==
    [][\A w \in Workers : Committing(w) => pc'[w] # "killed"]_vars

\* C20: after stop() has been called on a consumer it issues no new queue
\* receive: receiveMessages is only ever called while isRunning is true,
\* and a consumer whose flag is cleared leaves the loop when it next
\* reaches its top.
C20_NoReceiveAfterStop ==
    [][\A w \in Workers :
          /\ (pc'[w] = "receiving" /\ pc[w] # "receiving") => isRunning[w]
          /\ (pc[w] = "loop" /\ ~isRunning[w] /\ pc'[w] # "loop") =>
                pc'[w] \in {"exited", "killed"}]_vars

\* a stopped consumer has left its loop with a message still to receive
C20_Witness ==
    \E w \in Workers :
        /\ pc[w] = "exited"
        /\ ~isRunning[w]
        /\ proc = "up"
        /\ \E m \in Msgs : queue[m] = "visible"
        /\ \E m \in Msgs : queue[m] = "deleted"

\* the ALTER awaited by s settles in the step
QuerySettles(s) ==
    /\ spc[s] = "waitForQuery"
    /\ spc'[s] # spc[s] \/ totalAdded'[s] # totalAdded[s]

\* the headers of the file map to different column names
DistinctNames ==
    \A i, j \in DOMAIN csvHeaders :
        i # j => safeColumnName(csvHeaders[i]) # safeColumnName(csvHeaders[j])

\* C21: schema sync is idempotent: once a syncSchema with the headers of
\* the file has resolved, no later run with the same headers changes the
\* column set of the table, and no run ever rejects with the duplicate
\* column error of the warehouse.
C21_SyncIdempotent ==
    /\ [][synced => DOMAIN columns' = DOMAIN columns]_vars
    /\ [](\A s \in Syncers : syncResult[s] # "already exists")

\* the only syncer that ran has resolved a run in which every header was
\* missing again and every ALTER was rejected as a duplicate of a column
\* that an earlier run of it had added
C21_Witness ==
    /\ DistinctNames
    /\ \A s \in Syncers \ {1} : spc[s] = "idle"
    /\ syncResult[1] = "resolved"
    /\ sawExists[1]
    /\ totalAdded[1] = Len(csvHeaders)
    /\ DOMAIN columns = {safeColumnName(csvHeaders[i]) : i \in DOMAIN csvHeaders}

\* C22: a column-already-exists error is treated as success: when the ALTER
\* of a column the table already has settles, the run either fails on an
\* error of another kind or counts the column, leaves the table as it is
\* and goes on with the remaining headers, resolving after the last.
C22_AlreadyExistsIsSuccess ==
    [][\A s \in Syncers :
          (QuerySettles(s)
             /\ safeColumnName(missingColumns[s][idx[s]]) \in DOMAIN columns) =>
              \/ syncResult'[s] \in {"failed", "timeout"}
              \/ /\ totalAdded'[s] = totalAdded[s] + 1
                 /\ sawExists'[s]
                 /\ columns' = columns
                 /\ IF NextColumn(missingColumns[s], idx[s] + 1) > Len(missingColumns[s])
                    THEN spc'[s] = "done" /\ syncResult'[s] = "resolved"
                    ELSE /\ spc'[s] = "waitForQuery"
                         /\ syncResult'[s] = "none"
                         /\ idx'[s] = NextColumn(missingColumns[s], idx[s] + 1)]_vars

\* two syncers read the same columns of the table and both resolved: one
\* added a column, the other was told that it already exists
C22_Witness ==
    /\ DistinctNames
    /\ \A s \in Syncers : syncResult[s] = "resolved"
    /\ existingColumns[1] = existingColumns[2]
    /\ sawExists[1] /\ ~sawExists[2]
    /\ totalAdded[1] >= 1 /\ totalAdded[2] >= 1

\* C23: the syncer only ever adds columns: no step removes a column of the
\* table or changes its type.
C23_AdditiveOnly ==
    [][\A c \in DOMAIN columns : c \in DOMAIN columns' /\ columns'[c] = columns[c]]_vars

\* a header mapping to the DATE column "a_" was found missing and its ALTER
\* rejected, another column was added, and the DATE columns are as before
C23_Witness ==
    /\ \E i \in DOMAIN csvHeaders : csvHeaders[i] = <<"a", "-">>
    /\ \E s \in Syncers : syncResult[s] = "resolved" /\ sawExists[s]
    /\ <<"a", "_">> \in DOMAIN columns /\ columns[<<"a", "_">>] = "DATE"
    /\ \E c \in DOMAIN columns : columns[c] = "VARCHAR"

\* C24: when the size trigger and the time trigger are both true at the
\* flush, the reason given for the batch is the size: a batch that has
\* reached targetBatchSize is flushed as batch_size_reached however long
\* the wait was, and timeout is the reason of smaller batches only.
C24_SizeReasonFirst ==
    \A w \in Workers :
        Committing(w) =>
            /\ flushLog[w].reason \in {"batch_size_reached", "timeout"}
            /\ flushLog[w].reason = "batch_size_reached" <=>
                  Len(batchEvents[w]) >= targetBatchSize
            /\ flushLog[w].reason = "timeout" => flushLog[w].waitTime >= maxWaitTime

\* a batch of targetBatchSize events was flushed after maxWaitTime had
\* passed, for the reason of its size
C24_Witness ==
    \E w \in Workers :
        /\ pc[w] = "load"
        /\ Len(batchEvents[w]) >= targetBatchSize
        /\ flushLog[w].waitTime >= maxWaitTime
        /\ flushLog[w].reason = "batch_size_reached"

\* the polls at which DescribeStatement reports a terminal status
TerminalPolls == {k \in DOMAIN responses : responses[k] \in JobTerminal}

\* C25: polling stops at the first describe that reports a terminal status:
\* no further DescribeStatement is made for the job, FINISHED resolves the
\* wait and FAILED or ABORTED rejects it at once.  Violated by
\* CleverTapRedshiftService, whose catch swallows the throw until the last
\* retry, and by CleverTapS3PathConsumer for ABORTED.
C25_StopsAtTerminal ==
    \A k \in TerminalPolls :
        (described >= k /\ \A j \in TerminalPolls : j >= k) =>
            /\ described = k
            /\ waitResult = (IF responses[k] = "FINISHED" THEN "FINISHED" ELSE "FAILED")

\* the delete of the batch of w settles in the step
DeleteSettles(w) == pc[w] = "delete" /\ pc'[w] \notin {"delete", "killed"}

\* C26: when the delete of a batch fails after its load FINISHED, the
\* messages it did not delete stay in the queue as they were, to be
\* redelivered when their visibility timeout expires, and the consumer goes
\* on polling with empty accumulators.
C26_DeleteFailureRedelivers ==
    [][\A w \in Workers : DeleteSettles(w) =>
          /\ pc'[w] = "loop"
          /\ isRunning'[w] = isRunning[w]
          /\ Held(w)' = <<>>
          /\ \A m \in Range(batchReceiptHandles[w]) :
                queue'[m] # "deleted" => (queue'[m] = queue[m] /\ queue[m] # "deleted")]_vars

\* a message whose delete failed after a FINISHED load was redelivered and
\* is in the batch being loaded again
C26_Witness ==
    \E w \in Workers : \E m \in Range(batchReceiptHandles[w]) :
        /\ pc[w] = "load"
        /\ ackedOn[m] = "UNDELETED"
        /\ m \notin failed

\* ---------------------------------------------------------------------
\* File-based sync workers: S3RedshiftSync and CleverTapSync
\* ---------------------------------------------------------------------

NumFiles == 2
NumRuns == 2

Files == 1..NumFiles
Runs == 1..NumRuns

SyncWorkers == {"S3RedshiftSync", "CleverTapSync"}

\* the keys ListObjectsV2 returns under the prefix
listPendingFiles(b) == {f \in Files : b[f] = "pending"}

\* what the COPY statement reads: FROM 's3://bucket/prefix/' is every object
\* under the source prefix when the statement runs (S3RedshiftSync), or
\* every object under the JSON prefix (CleverTapSync)
CopySource(worker, b, json) ==
    IF worker = "S3RedshiftSync" THEN listPendingFiles(b) ELSE json

\* how the polling loop of the sync workers can settle
SyncOutcomes == {waitForStatementCompletion(a, 1) : a \in Describes}

\* going on to the archive step whatever the polling returned
ArchivesAnyway(worker, status) ==
    IF worker = "CleverTapSync" THEN "cleanup" ELSE "archive"

\* runSync after waitForStatementCompletion settled: it resolves on FINISHED
\* only, anything else is a throw into the catch of runSync
AfterWait(worker, status) ==
    IF status # "FINISHED" THEN "catch"
    ELSE IF worker = "CleverTapSync" THEN "cleanup" ELSE "archive"

\* runSync() is entered by run r: nothing happens unless isRunning
runSync(r) ==
    /\ rpc[r] = "idle"
    /\ rpc' = [rpc EXCEPT ![r] = IF syncIsRunning THEN "list" ELSE "idle"]

\* runSync() of run r is over; start() awaiting it sets the interval timer
EndRun(r) ==
    /\ rpc' = [rpc EXCEPT ![r] = "idle"]
    /\ pendingFiles' = [pendingFiles EXCEPT ![r] = {}]
    /\ jsonPath' = [jsonPath EXCEPT ![r] = FALSE]
    /\ outcome' = [outcome EXCEPT ![r] = "none"]
    /\ copied' = [copied EXCEPT ![r] = {}]
    /\ starter' = IF starter = r THEN 0 ELSE starter
    /\ syncInterval' = IF starter = r THEN TRUE ELSE syncInterval

\* the statement a throw inside the try of runSync leads to
Throws(r) ==
    /\ rpc' = [rpc EXCEPT ![r] = "catch"]
    /\ UNCHANGED <<pendingFiles, jsonPath, outcome, copied, starter, syncInterval>>

\* start(): isRunning = true, then the initial runSync() is awaited
SyncStart(r) ==
    /\ ~syncIsRunning
    /\ starter = 0
    /\ rpc[r] = "idle"
    /\ syncIsRunning' = TRUE
    /\ starter' = r
    /\ rpc' = [rpc EXCEPT ![r] = "list"]
    /\ UNCHANGED <<pipeline, schema, polling, lifecycle, aux, syncWorker, bucket, syncInterval, pendingFiles,
                   jsonPath, jsonFiles, outcome, copied, timesLoaded, preserved>>

\* stop(): isRunning = false and the interval is cleared
SyncStop ==
    /\ syncIsRunning
    /\ syncIsRunning' = FALSE
    /\ syncInterval' = FALSE
    /\ UNCHANGED <<pipeline, schema, polling, lifecycle, aux, syncWorker, bucket, starter, rpc, pendingFiles,
                   jsonPath, jsonFiles, outcome, copied, timesLoaded, preserved>>

\* the interval fires: runSync() is called and not awaited
IntervalTick(r) ==
    /\ syncInterval
    /\ runSync(r)
    /\ UNCHANGED <<pipeline, schema, polling, lifecycle, aux, syncWorker, bucket, syncIsRunning, syncInterval,
                   starter, pendingFiles, jsonPath, jsonFiles, outcome, copied, timesLoaded,
                   preserved>>

\* triggerSync(): runSync() on demand
triggerSync(r) ==
    /\ runSync(r)
    /\ UNCHANGED <<pipeline, schema, polling, lifecycle, aux, syncWorker, bucket, syncIsRunning, syncInterval,
                   starter, pendingFiles, jsonPath, jsonFiles, outcome, copied, timesLoaded,
                   preserved>>

\* a producer puts file f under the source prefix
Upload(f) ==
    /\ bucket[f] = "absent"
    /\ bucket' = [bucket EXCEPT ![f] = "pending"]
    /\ UNCHANGED <<pipeline, schema, polling, lifecycle, aux, syncWorker, syncIsRunning, syncInterval, starter,
                   rpc, pendingFiles, jsonPath, jsonFiles, outcome, copied, timesLoaded,
                   preserved>>

\* listPendingFiles settles: a rejection goes to the catch, an empty list
\* ends the run, anything else is the work of this run
ListReturn(r) ==
    /\ rpc[r] = "list"
    /\ \/ Throws(r)
       \/ /\ listPendingFiles(bucket) = {}
          /\ EndRun(r)
       \/ /\ listPendingFiles(bucket) # {}
          /\ pendingFiles' = [pendingFiles EXCEPT ![r] = listPendingFiles(bucket)]
          /\ rpc' = [rpc EXCEPT ![r] = IF syncWorker = "CleverTapSync" THEN "convert"
                                        ELSE "submit"]
          /\ UNCHANGED <<jsonPath, outcome, copied, starter, syncInterval>>
    /\ UNCHANGED <<pipeline, schema, polling, lifecycle, aux, syncWorker, bucket, syncIsRunning, jsonFiles,
                   timesLoaded, preserved>>

\* convertCsvFilesToJson settles: resolved, every listed file has its
\* conversion under the JSON prefix; rejected on a file, the conversions
\* written before it stay there
ConvertReturn(r) ==
    /\ rpc[r] = "convert"
    /\ \/ /\ jsonFiles' = jsonFiles \cup pendingFiles[r]
          /\ jsonPath' = [jsonPath EXCEPT ![r] = TRUE]
          /\ rpc' = [rpc EXCEPT ![r] = "submit"]
          /\ UNCHANGED <<pendingFiles, outcome, copied, starter, syncInterval>>
       \/ /\ \E done \in SUBSET pendingFiles[r] :
                /\ done # pendingFiles[r]
                /\ jsonFiles' = jsonFiles \cup done
          /\ Throws(r)
    /\ UNCHANGED <<pipeline, schema, polling, lifecycle, aux, syncWorker, bucket, syncIsRunning, timesLoaded,
                   preserved>>

\* copyFromS3ToRedshift settles: the statement is submitted, or the call
\* rejects
SubmitReturn(r) ==
    /\ rpc[r] = "submit"
    /\ \/ /\ rpc' = [rpc EXCEPT ![r] = "copy"]
          /\ UNCHANGED <<pendingFiles, jsonPath, outcome, copied, starter, syncInterval>>
       \/ Throws(r)
    /\ UNCHANGED <<pipeline, schema, polling, lifecycle, aux, syncWorker, bucket, syncIsRunning, jsonFiles,
                   timesLoaded, preserved>>

\* the warehouse runs the COPY statement of run r on what its FROM clause
\* holds at that moment
CopyExecutes(r) ==
    /\ rpc[r] = "copy"
    /\ \E status \in SyncOutcomes :
          /\ outcome' = [outcome EXCEPT ![r] = status]
          /\ copied' = [copied EXCEPT ![r] =
                IF status = "FINISHED" THEN CopySource(syncWorker, bucket, jsonFiles)
                ELSE {}]
    /\ rpc' = [rpc EXCEPT ![r] = "wait"]
    /\ UNCHANGED <<pipeline, schema, polling, lifecycle, aux, syncWorker, bucket, syncIsRunning, syncInterval,
                   starter, pendingFiles, jsonPath, jsonFiles, timesLoaded, preserved>>

\* waitForStatementCompletion settles
WaitReturn(r) ==
    /\ rpc[r] = "wait"
    /\ rpc' = [rpc EXCEPT ![r] = AfterWait(syncWorker, outcome[r])]
    /\ UNCHANGED <<pipeline, schema, polling, lifecycle, aux, syncWorker, bucket, syncIsRunning, syncInterval,
                   starter, pendingFiles, jsonPath, jsonFiles, outcome, copied, timesLoaded,
                   preserved>>

\* cleanupJsonFiles settles: it never rejects, a failure to delete is logged
\* and leaves the JSON prefix as it is
CleanupJsonReturn(r) ==
    /\ rpc[r] = "cleanup"
    /\ jsonFiles' \in {{}, jsonFiles}
    /\ rpc' = [rpc EXCEPT ![r] = "archive"]
    /\ UNCHANGED <<pipeline, schema, polling, lifecycle, aux, syncWorker, bucket, syncIsRunning, syncInterval,
                   starter, pendingFiles, jsonPath, outcome, copied, timesLoaded, preserved>>

\* archiveFiles(pendingFiles) settles: resolved, the listed files are gone
\* and the run has succeeded; rejected, nothing was deleted
ArchiveReturn(r) ==
    /\ rpc[r] = "archive"
    /\ \/ /\ bucket' = [f \in Files |-> IF f \in pendingFiles[r] THEN "archived"
                                         ELSE bucket[f]]
          /\ timesLoaded' = [f \in Files |-> IF f \in copied[r] THEN timesLoaded[f] + 1
                                              ELSE timesLoaded[f]]
          /\ EndRun(r)
       \/ /\ Throws(r)
          /\ UNCHANGED <<bucket, timesLoaded>>
    /\ UNCHANGED <<pipeline, schema, polling, lifecycle, aux, syncWorker, syncIsRunning, jsonFiles, preserved>>

\* the catch of runSync: the JSON files are cleaned up if the conversion
\* had resolved, the source files are left for the next run
CatchReturn(r) ==
    /\ rpc[r] = "catch"
    /\ jsonFiles' \in IF jsonPath[r] THEN {{}, jsonFiles} ELSE {jsonFiles}
    /\ preserved' = preserved \cup pendingFiles[r]
    /\ EndRun(r)
    /\ UNCHANGED <<pipeline, schema, polling, lifecycle, aux, syncWorker, bucket, syncIsRunning, timesLoaded>>

InitFileSync ==
    /\ PipelineIdle
    /\ SchemaIdle
    /\ PollingIdle
    /\ LifecycleIdle
    /\ AuxIdle
    /\ syncWorker \in SyncWorkers
    /\ bucket = [f \in Files |-> "absent"]
    /\ syncIsRunning = FALSE
    /\ syncInterval = FALSE
    /\ starter = 0
    /\ rpc = [r \in Runs |-> "idle"]
    /\ pendingFiles = [r \in Runs |-> {}]
    /\ jsonPath = [r \in Runs |-> FALSE]
    /\ jsonFiles = {}
    /\ outcome = [r \in Runs |-> "none"]
    /\ copied = [r \in Runs |-> {}]
    /\ timesLoaded = [f \in Files |-> 0]
    /\ preserved = {}

NextFileSync ==
    \/ SyncStop
    \/ \E f \in Files : Upload(f)
    \/ \E r \in Runs :
          \/ SyncStart(r)
          \/ IntervalTick(r)
          \/ triggerSync(r)
          \/ ListReturn(r)
          \/ ConvertReturn(r)
          \/ SubmitReturn(r)
          \/ CopyExecutes(r)
          \/ WaitReturn(r)
          \/ CleanupJsonReturn(r)
          \/ ArchiveReturn(r)
          \/ CatchReturn(r)

SpecFileSync == InitFileSync /\ [][NextFileSync]_vars

\* C27: no staged file is loaded by more than one successful sync run.
\* Violated: the COPY reads the whole prefix while the run archives only the
\* files it listed, and runs overlap, so that a file uploaded after the
\* listing, or listed by two runs, is loaded by two runs that both succeed.
C27_LoadedByOneRun == \A f \in Files : timesLoaded[f] <= 1

\* a source file of run r leaves the bucket in the step
Archives(r, f) == bucket[f] = "pending" /\ bucket'[f] = "archived" /\ f \in pendingFiles[r]

\* C28: a source file is deleted only by the archive step of a run whose
\* COPY reached FINISHED, and a step that throws into the catch of runSync,
\* like the catch itself, deletes no source file: the files the failed run
\* had listed are still under the prefix for the next listing.
C28_ArchiveOnlyAfterFinished ==
    [][/\ \A f \in Files : bucket'[f] # bucket[f] /\ bucket'[f] = "archived" =>
              \E r \in Runs : /\ Archives(r, f)
                              /\ rpc[r] = "archive"
                              /\ outcome[r] = "FINISHED"
       /\ \A r \in Runs : (rpc'[r] = "catch" \/ rpc[r] = "catch") /\ rpc'[r] # rpc[r] =>
              bucket' = bucket]_vars

\* a file a failed run had listed and left in place is in the list of a
\* later run
C28_Witness ==
    \E r \in Runs : \E f \in pendingFiles[r] :
        /\ f \in preserved
        /\ rpc[r] \in {"convert", "submit"}
        /\ bucket[f] = "pending"

\* ---------------------------------------------------------------------
\* start() and stop() called in any order on one consumer instance
\* ---------------------------------------------------------------------

NumLoops == 3
MaxFlushes == 2

Loops == 1..NumLoops

\* the poll() invocations that have not returned
ActiveLoops == {l \in Loops : loopPc[l] \notin {"unused", "exited"}}

\* while (this.isRunning), reached without suspension once the last await
\* of an iteration has settled: the next receive is awaited or poll() returns
Around(running) == IF Continues(running) THEN "receiving" ELSE "exited"

\* start(): this.isRunning = true; this.poll() -- a new invocation of
\* poll(), run up to its first await, whatever the instance is doing
InstanceStart ==
    \E l \in Loops :
        /\ loopPc[l] = "unused"
        /\ \A k \in Loops : k < l => loopPc[k] # "unused"
        /\ instanceRunning' = TRUE
        /\ loopPc' = [loopPc EXCEPT ![l] = Around(TRUE)]
        /\ UNCHANGED <<pipeline, schema, polling, filesync, aux, batchesFlushed>>

\* stop(): this.isRunning = false
InstanceStop ==
    /\ instanceRunning' = FALSE
    /\ UNCHANGED <<pipeline, schema, polling, filesync, aux, loopPc, batchesFlushed>>

\* await receiveMessages of invocation l settles: a batch is flushed, or
\* the loop goes round
ReceiveSettles(l) ==
    /\ loopPc[l] = "receiving"
    /\ \/ /\ batchesFlushed < MaxFlushes
          /\ loopPc' = [loopPc EXCEPT ![l] = "flushing"]
       \/ loopPc' = [loopPc EXCEPT ![l] = Around(instanceRunning)]
    /\ UNCHANGED <<pipeline, schema, polling, filesync, aux, instanceRunning, batchesFlushed>>

\* the awaits of the flush of invocation l settle and the loop goes round
FlushSettles(l) ==
    /\ loopPc[l] = "flushing"
    /\ batchesFlushed' = batchesFlushed + 1
    /\ loopPc' = [loopPc EXCEPT ![l] = Around(instanceRunning)]
    /\ UNCHANGED <<pipeline, schema, polling, filesync, aux, instanceRunning>>

InitLifecycle ==
    /\ PipelineIdle
    /\ SchemaIdle
    /\ PollingIdle
    /\ FileSyncIdle
    /\ AuxIdle
    /\ instanceRunning = FALSE
    /\ loopPc = [l \in Loops |-> "unused"]
    /\ batchesFlushed = 0

NextLifecycle ==
    \/ InstanceStart
    \/ InstanceStop
    \/ \E l \in Loops : ReceiveSettles(l) \/ FlushSettles(l)

SpecLifecycle == InitLifecycle /\ [][NextLifecycle]_vars

\* C29: whatever the order of the start() and stop() calls, at most one
\* poll loop of the instance is active.  Violated: start() launches poll()
\* without looking at a loop already running, and a loop suspended in an
\* await across stop(); start() finds the flag set again and goes on.
C29_OnePollLoop == Cardinality(ActiveLoops) <= 1

\* C30: the consumer that drops a malformed message removes it from the
\* queue: once every consumer is between two iterations, no malformed
\* message is left in flight to become visible and be dropped again.
\* Violated: CleverTapSqsConsumer filters the message out of the receive and
\* never passes its receipt handle to a delete.
C30_MalformedRemoved ==
    (\A w \in Workers : pc[w] \in {"idle", "loop", "exited"}) =>
        \A m \in Msgs : body[m] = Malformed => queue[m] # "inflight"

\* the columns read by syncer s hold the column of every header of the file
AllObserved(s) ==
    \A i \in DOMAIN csvHeaders :
        Skipped(safeColumnName(csvHeaders[i])) \/ safeColumnName(csvHeaders[i]) \in existingColumns[s]

\* C39: once a sync has added every observed field, a further sync with the
\* same fields submits no ADD COLUMN and returns 0, sanitized names
\* included.  Violated: the missing headers are found by comparing the raw
\* lower-cased header with the column names, so that a header whose column
\* name differs from it is missing in every run; its ALTER is rejected as a
\* duplicate and counted as a column added.
C39_NothingToAdd ==
    \A s \in Syncers :
        (synced /\ AllObserved(s) /\ spc[s] \in {"waitForQuery", "done"}) =>
            spc[s] = "done" /\ totalAdded[s] = 0

\* ---------------------------------------------------------------------
\* CleverTapS3PathConsumer: retention of the staged files
\* ---------------------------------------------------------------------

MaxClock == 6
NumStaged == 2

\* CLEVERTAP_FILE_DELETE_AFTER_MS and CLEVERTAP_CLEANUP_INTERVAL_MS, in ticks
deleteAfterMs == 2
cleanupIntervalMs == 2

NotScheduled == 0 - 1

StagedPaths == 1..NumStaged

\* a deadline that every scheduled file has passed
DueAtOnce(now, deleteTime) == TRUE

\* if (now >= deleteTime) filesToDeleteNow.push(s3Path)
Due(now, deleteTime) == now >= deleteTime

\* Date.now() advances
ClockTick ==
    /\ clock < MaxClock
    /\ clock' = clock + 1
    /\ UNCHANGED <<core, eventbuffer, csvstream, nonlending, lastCleanupTime, deleteTimes, stagedFiles, loadedAt>>

\* copyFromS3 of a message naming path p settles: resolved (the statement
\* FINISHED, rowsInserted > 0), the file is scheduled for deletion at
\* Date.now() + deleteAfterMs; rejected, nothing is scheduled
CopyFromS3Return(p) ==
    /\ stagedFiles[p]
    /\ \E status \in {"FINISHED", "FAILED"} :
          /\ deleteTimes' = [deleteTimes EXCEPT
                ![p] = IF status = "FINISHED" THEN clock + deleteAfterMs ELSE @]
          /\ loadedAt' = [loadedAt EXCEPT ![p] = IF status = "FINISHED" THEN clock ELSE @]
    /\ UNCHANGED <<core, eventbuffer, csvstream, nonlending, clock, lastCleanupTime, stagedFiles>>

\* cleanupOldFiles() once the cleanup interval has passed: the scheduled
\* files that are due are deleted, each leaving the map unless its
\* DeleteObject rejects
RetentionCleanup ==
    /\ clock - lastCleanupTime >= cleanupIntervalMs
    /\ lastCleanupTime' = clock
    /\ LET filesToDeleteNow == {p \in StagedPaths : /\ deleteTimes[p] # NotScheduled
                                                    /\ Due(clock, deleteTimes[p])}
       IN  \E deleted \in SUBSET filesToDeleteNow :
              /\ stagedFiles' = [p \in StagedPaths |-> stagedFiles[p] /\ p \notin deleted]
              /\ deleteTimes' = [p \in StagedPaths |-> IF p \in deleted THEN NotScheduled
                                                       ELSE deleteTimes[p]]
    /\ UNCHANGED <<core, eventbuffer, csvstream, nonlending, clock, loadedAt>>

\* every staged file is in the bucket and nothing is scheduled;
\* lastCleanupTime = 0 lies more than an interval before Date.now()
InitRetention ==
    /\ PipelineIdle
    /\ SchemaIdle
    /\ PollingIdle
    /\ FileSyncIdle
    /\ LifecycleIdle
    /\ EventBufferIdle
    /\ CsvStreamIdle
    /\ NonLendingIdle
    /\ clock = cleanupIntervalMs
    /\ lastCleanupTime = 0
    /\ deleteTimes = [p \in StagedPaths |-> NotScheduled]
    /\ stagedFiles = [p \in StagedPaths |-> TRUE]
    /\ loadedAt = [p \in StagedPaths |-> NotScheduled]

NextRetention ==
    \/ ClockTick
    \/ RetentionCleanup
    \/ \E p \in StagedPaths : CopyFromS3Return(p)

SpecRetention == InitRetention /\ [][NextRetention]_vars

\* C38: a staged file is scheduled for deletion only by a COPY of it that
\* succeeded, with the time of that load plus the retention window as its
\* deadline, and a file leaves the bucket only once it has been loaded and
\* that deadline has passed.
C38_RetentionKept ==
    [][\A p \in StagedPaths :
          /\ (deleteTimes'[p] # deleteTimes[p] /\ deleteTimes'[p] # NotScheduled) =>
                /\ loadedAt'[p] = clock
                /\ deleteTimes'[p] = loadedAt'[p] + deleteAfterMs
          /\ (stagedFiles[p] /\ ~stagedFiles'[p]) =>
                /\ loadedAt[p] # NotScheduled
                /\ clock >= loadedAt[p] + deleteAfterMs]_vars

\* a file was loaded, kept through a cleanup that came before its deadline
\* and deleted by a later one, while another file is still scheduled
C38_Witness ==
    \E p, q \in StagedPaths :
        /\ ~stagedFiles[p]
        /\ loadedAt[p] # NotScheduled
        /\ lastCleanupTime >= loadedAt[p] + deleteAfterMs
        /\ stagedFiles[q]
        /\ deleteTimes[q] > clock

\* ---------------------------------------------------------------------
\* CleverTapNonLendingSync: one-off load of the exported files in batches
\* ---------------------------------------------------------------------

NumKeys == 2
MaxRestarts == 1

\* CLEVERTAP_NON_LENDING_BATCH_SIZE and CLEVERTAP_NON_LENDING_MAX_PARALLEL
batchSize == 1
maxParallelBatches == 2

NlKeys == 1..NumKeys
BatchSlots == 1..maxParallelBatches

\* the statement of a batch is at one of its four steps in the warehouse
StatementRunning == {"truncate", "copy", "insert", "clear"}

NoProgress == [saved |-> FALSE, filesProcessed |-> 0, totalFilesToProcess |-> 0,
               processedFileKeys |-> {}]

\* the file written by saveProgress()
saveProgress(processed, total, keys) ==
    [saved |-> TRUE, filesProcessed |-> processed, totalFilesToProcess |-> total,
     processedFileKeys |-> keys]

\* parallelBatches of the group that starts at offset i of pendingFiles:
\* slot j holds pendingFiles.slice(i + j * batchSize, i + j * batchSize + batchSize)
parallelBatches(pending, i) ==
    [j \in BatchSlots |->
        Range(SubSeq(pending, i + (j - 1) * batchSize + 1,
                     Min(i + j * batchSize, Len(pending))))]

\* the batch promises of a group are created: every batch calls
\* copyFromS3ToRedshift
StartGroup(pending, i) ==
    /\ pendingKeys' = pending
    /\ groupAt' = i
    /\ batchFiles' = parallelBatches(pending, i)
    /\ batchPc' = [j \in BatchSlots |->
                      IF parallelBatches(pending, i)[j] = {} THEN "none" ELSE "submit"]
    /\ nlPc' = "group"

NoGroup ==
    /\ pendingKeys' = <<>>
    /\ groupAt' = 0
    /\ batchFiles' = [j \in BatchSlots |-> {}]
    /\ batchPc' = [j \in BatchSlots |-> "none"]

\* start(): isRunning = true, then runSync(), which returns at once when the
\* worker is complete and lists the bucket otherwise
NonLendingStart ==
    /\ nlPc = "idle"
    /\ ~nlIsRunning
    /\ nlIsRunning' = TRUE
    /\ nlPc' = IF allFilesProcessed THEN "idle" ELSE "list"
    /\ UNCHANGED <<core, eventbuffer, csvstream, retention, nlBucket, allFilesProcessed, totalFilesToProcess,
                   filesProcessed, processedFileKeys, progressFile, allFiles,
                   pendingKeys, groupAt, batchFiles, batchPc, stagingRows, inserted,
                   finishedLoads, loadedKeys, restarts>>

\* stop() called from outside while a sync is under way
NonLendingStop ==
    /\ nlIsRunning
    /\ nlPc # "idle"
    /\ nlIsRunning' = FALSE
    /\ UNCHANGED <<core, eventbuffer, csvstream, retention, nlBucket, nlPc, allFilesProcessed,
                   totalFilesToProcess, filesProcessed, processedFileKeys,
                   progressFile, allFiles, pendingKeys, groupAt, batchFiles, batchPc,
                   stagingRows, inserted, finishedLoads, loadedKeys, restarts>>

\* the export adds one more data file to the bucket
ExportUpload(k) ==
    /\ k \notin nlBucket
    /\ nlBucket' = nlBucket \cup {k}
    /\ UNCHANGED <<core, eventbuffer, csvstream, retention, nlPc, nlIsRunning, allFilesProcessed,
                   totalFilesToProcess, filesProcessed, processedFileKeys,
                   progressFile, allFiles, pendingKeys, groupAt, batchFiles, batchPc,
                   stagingRows, inserted, finishedLoads, loadedKeys, restarts>>

\* listPendingFiles() returns or throws; runSync() then sets the total on the
\* first listing, filters the processed keys out, and either completes, returns
\* or starts the first group of batches
ListFilesReturn(threw) ==
    /\ nlPc = "list"
    /\ IF threw
       THEN /\ nlPc' = "idle"
            /\ UNCHANGED <<allFiles, totalFilesToProcess, allFilesProcessed,
                           nlIsRunning, pendingKeys, groupAt, batchFiles, batchPc>>
       ELSE LET listed == nlBucket
                pending == SeqOf(listed \ processedFileKeys)
            IN  /\ allFiles' = listed
                /\ totalFilesToProcess' =
                       IF totalFilesToProcess = 0 /\ Cardinality(listed) > 0
                       THEN Cardinality(listed) ELSE totalFilesToProcess
                /\ IF Len(pending) = 0
                   THEN /\ nlPc' = "idle"
                        /\ IF Cardinality(listed) > 0 \/ filesProcessed > 0
                           THEN allFilesProcessed' = TRUE /\ nlIsRunning' = FALSE
                           ELSE UNCHANGED <<allFilesProcessed, nlIsRunning>>
                        /\ UNCHANGED <<pendingKeys, groupAt, batchFiles, batchPc>>
                   ELSE /\ StartGroup(pending, 0)
                        /\ UNCHANGED <<allFilesProcessed, nlIsRunning>>
    /\ UNCHANGED <<core, eventbuffer, csvstream, retention, nlBucket, filesProcessed, processedFileKeys,
                   progressFile, stagingRows, inserted, finishedLoads, loadedKeys,
                   restarts>>

\* copyFromS3ToRedshift(batch) returns the id of the submitted statement, or
\* throws and the batch settles as failed
CopySubmitReturn(j, threw) ==
    /\ nlPc = "group"
    /\ batchPc[j] = "submit"
    /\ batchPc' = [batchPc EXCEPT ![j] = IF threw THEN "bad" ELSE "truncate"]
    /\ UNCHANGED <<core, eventbuffer, csvstream, retention, nlBucket, nlPc, nlIsRunning, allFilesProcessed,
                   totalFilesToProcess, filesProcessed, processedFileKeys,
                   progressFile, allFiles, pendingKeys, groupAt, batchFiles,
                   stagingRows, inserted, finishedLoads, loadedKeys, restarts>>

\* step 1 of the statement: TRUNCATE TABLE staging
StagingTruncate(j) ==
    /\ batchPc[j] = "truncate"
    /\ stagingRows' = {}
    /\ batchPc' = [batchPc EXCEPT ![j] = "copy"]
    /\ UNCHANGED <<core, eventbuffer, csvstream, retention, nlBucket, nlPc, nlIsRunning, allFilesProcessed,
                   totalFilesToProcess, filesProcessed, processedFileKeys,
                   progressFile, allFiles, pendingKeys, groupAt, batchFiles,
                   inserted, finishedLoads, loadedKeys, restarts>>

\* step 2 of the statement: COPY staging FROM the manifest of the batch, which
\* loads the files of the batch or fails the statement
StagingCopy(j, copyFailed) ==
    /\ batchPc[j] = "copy"
    /\ IF copyFailed
       THEN /\ batchPc' = [batchPc EXCEPT ![j] = "failed"]
            /\ UNCHANGED stagingRows
       ELSE /\ batchPc' = [batchPc EXCEPT ![j] = "insert"]
            /\ stagingRows' = stagingRows \cup batchFiles[j]
    /\ UNCHANGED <<core, eventbuffer, csvstream, retention, nlBucket, nlPc, nlIsRunning, allFilesProcessed,
                   totalFilesToProcess, filesProcessed, processedFileKeys,
                   progressFile, allFiles, pendingKeys, groupAt, batchFiles,
                   inserted, finishedLoads, loadedKeys, restarts>>

\* step 3 of the statement: INSERT INTO final SELECT ... FROM staging
TransformInsert(j) ==
    /\ batchPc[j] = "insert"
    /\ inserted' = [k \in NlKeys |->
                       IF k \in stagingRows THEN inserted[k] + 1 ELSE inserted[k]]
    /\ batchPc' = [batchPc EXCEPT ![j] = "clear"]
    /\ UNCHANGED <<core, eventbuffer, csvstream, retention, nlBucket, nlPc, nlIsRunning, allFilesProcessed,
                   totalFilesToProcess, filesProcessed, processedFileKeys,
                   progressFile, allFiles, pendingKeys, groupAt, batchFiles,
                   stagingRows, finishedLoads, loadedKeys, restarts>>

\* step 4 of the statement: TRUNCATE TABLE staging, after which the statement
\* is FINISHED
StagingClear(j) ==
    /\ batchPc[j] = "clear"
    /\ stagingRows' = {}
    /\ finishedLoads' = [k \in NlKeys |->
                            IF k \in batchFiles[j] THEN finishedLoads[k] + 1
                            ELSE finishedLoads[k]]
    /\ batchPc' = [batchPc EXCEPT ![j] = "finished"]
    /\ UNCHANGED <<core, eventbuffer, csvstream, retention, nlBucket, nlPc, nlIsRunning, allFilesProcessed,
                   totalFilesToProcess, filesProcessed, processedFileKeys,
                   progressFile, allFiles, pendingKeys, groupAt, batchFiles,
                   inserted, loadedKeys, restarts>>

\* waitForStatementCompletion() returns on FINISHED, and the files of the batch
\* are marked as processed before the manifest is deleted; it throws on FAILED,
\* and the batch settles as failed
StatementWaitReturn(j) ==
    /\ nlPc = "group"
    /\ batchPc[j] \in {"finished", "failed"}
    /\ IF batchPc[j] = "finished"
       THEN /\ processedFileKeys' = processedFileKeys \cup batchFiles[j]
            /\ loadedKeys' = loadedKeys \cup batchFiles[j]
            /\ batchPc' = [batchPc EXCEPT ![j] = "manifest"]
       ELSE /\ batchPc' = [batchPc EXCEPT ![j] = "bad"]
            /\ UNCHANGED <<processedFileKeys, loadedKeys>>
    /\ UNCHANGED <<core, eventbuffer, csvstream, retention, nlBucket, nlPc, nlIsRunning, allFilesProcessed,
                   totalFilesToProcess, filesProcessed, progressFile, allFiles,
                   pendingKeys, groupAt, batchFiles, stagingRows, inserted,
                   finishedLoads, restarts>>

\* deleteManifestFile() returns (it never throws): the batch settles as
\* successful
DeleteManifestReturn(j) ==
    /\ nlPc = "group"
    /\ batchPc[j] = "manifest"
    /\ batchPc' = [batchPc EXCEPT ![j] = "ok"]
    /\ UNCHANGED <<core, eventbuffer, csvstream, retention, nlBucket, nlPc, nlIsRunning, allFilesProcessed,
                   totalFilesToProcess, filesProcessed, processedFileKeys,
                   progressFile, allFiles, pendingKeys, groupAt, batchFiles,
                   stagingRows, inserted, finishedLoads, loadedKeys, restarts>>

\* the files of the batches of the group that settled as successful
groupProcessed ==
    SumSeq([j \in BatchSlots |->
               IF batchPc[j] = "ok" THEN Cardinality(batchFiles[j]) ELSE 0])

\* the worker is complete once as many files were counted as the first
\* listing held
TotalReached(processed, total) == processed >= total

\* Promise.allSettled() of the group returns: the successful files are
\* counted and the progress is saved (a failed write is only logged); then the
\* next group starts, or the run ends: the worker completes and stops, or
\* runSync() calls itself again
GroupSettled(written) ==
    /\ nlPc = "group"
    /\ \A j \in BatchSlots : batchPc[j] \in {"none", "ok", "bad"}
    /\ filesProcessed' = filesProcessed + groupProcessed
    /\ progressFile' = IF written
                       THEN saveProgress(filesProcessed', totalFilesToProcess,
                                         processedFileKeys)
                       ELSE progressFile
    /\ IF groupAt + batchSize * maxParallelBatches < Len(pendingKeys)
       THEN /\ StartGroup(pendingKeys, groupAt + batchSize * maxParallelBatches)
            /\ UNCHANGED <<allFilesProcessed, nlIsRunning>>
       ELSE /\ NoGroup
            /\ IF TotalReached(filesProcessed', totalFilesToProcess)
               THEN /\ allFilesProcessed' = TRUE
                    /\ nlIsRunning' = FALSE
                    /\ nlPc' = "idle"
               ELSE /\ nlPc' = IF nlIsRunning THEN "list" ELSE "idle"
                    /\ UNCHANGED <<allFilesProcessed, nlIsRunning>>
    /\ UNCHANGED <<core, eventbuffer, csvstream, retention, nlBucket, totalFilesToProcess, processedFileKeys,
                   allFiles, stagingRows, inserted, finishedLoads, loadedKeys,
                   restarts>>

\* the process is restarted while no statement is running in the warehouse:
\* the constructor of the new worker runs loadProgress()
ProcessRestart ==
    /\ restarts < MaxRestarts
    /\ \A j \in BatchSlots : batchPc[j] \notin StatementRunning
    /\ restarts' = restarts + 1
    /\ filesProcessed' = progressFile.filesProcessed
    /\ totalFilesToProcess' = progressFile.totalFilesToProcess
    /\ processedFileKeys' = progressFile.processedFileKeys
    /\ allFilesProcessed' = FALSE
    /\ nlIsRunning' = FALSE
    /\ nlPc' = "idle"
    /\ allFiles' = {}
    /\ NoGroup
    /\ UNCHANGED <<core, eventbuffer, csvstream, retention, nlBucket, progressFile, stagingRows, inserted,
                   finishedLoads, loadedKeys>>

InitNonLending ==
    /\ PipelineIdle
    /\ SchemaIdle
    /\ PollingIdle
    /\ FileSyncIdle
    /\ LifecycleIdle
    /\ EventBufferIdle
    /\ CsvStreamIdle
    /\ RetentionIdle
    /\ CsvStreamIdle
    /\ EventBufferIdle
    /\ nlBucket \in SUBSET NlKeys
    /\ nlPc = "idle"
    /\ nlIsRunning = FALSE
    /\ allFilesProcessed = FALSE
    /\ totalFilesToProcess = 0
    /\ filesProcessed = 0
    /\ processedFileKeys = {}
    /\ progressFile = NoProgress
    /\ allFiles = {}
    /\ pendingKeys = <<>>
    /\ groupAt = 0
    /\ batchFiles = [j \in BatchSlots |-> {}]
    /\ batchPc = [j \in BatchSlots |-> "none"]
    /\ stagingRows = {}
    /\ inserted = [k \in NlKeys |-> 0]
    /\ finishedLoads = [k \in NlKeys |-> 0]
    /\ loadedKeys = {}
    /\ restarts = 0

\* the steps of the worker and of the warehouse
NonLendingSteps ==
    \/ \E threw \in BOOLEAN : ListFilesReturn(threw)
    \/ \E j \in BatchSlots, threw \in BOOLEAN : CopySubmitReturn(j, threw)
    \/ \E j \in BatchSlots : StagingTruncate(j)
    \/ \E j \in BatchSlots, copyFailed \in BOOLEAN : StagingCopy(j, copyFailed)
    \/ \E j \in BatchSlots : TransformInsert(j)
    \/ \E j \in BatchSlots : StagingClear(j)
    \/ \E j \in BatchSlots : StatementWaitReturn(j)
    \/ \E j \in BatchSlots : DeleteManifestReturn(j)
    \/ \E written \in BOOLEAN : GroupSettled(written)

NextNonLending ==
    \/ NonLendingStart
    \/ NonLendingStop
    \/ \E k \in NlKeys : ExportUpload(k)
    \/ ProcessRestart
    \/ NonLendingSteps

SpecNonLending == InitNonLending /\ [][NextNonLending]_vars

\* C31: a file whose batch was loaded successfully is never part of a
\* statement submitted later, also after a restart that resumes from the
\* saved progress file.
C31_LoadedNeverResubmitted ==
    \A j \in BatchSlots :
        batchPc[j] \in StatementRunning => batchFiles[j] \cap loadedKeys = {}

\* C32: the worker marks itself complete only when every file of its last
\* listing has been loaded successfully.
C32_CompleteOnlyWhenAllLoaded ==
    [][(allFilesProcessed' /\ ~allFilesProcessed) => allFiles' \subseteq loadedKeys']_vars

SpecNonLendingFair ==
    /\ SpecNonLending
    /\ WF_vars(\E threw \in BOOLEAN : ListFilesReturn(threw))
    /\ WF_vars(\E written \in BOOLEAN : GroupSettled(written))
    /\ \A j \in BatchSlots :
          /\ WF_vars(\E threw \in BOOLEAN : CopySubmitReturn(j, threw))
          /\ WF_vars(StagingTruncate(j))
          /\ WF_vars(\E copyFailed \in BOOLEAN : StagingCopy(j, copyFailed))
          /\ WF_vars(TransformInsert(j))
          /\ WF_vars(StagingClear(j))
          /\ WF_vars(StatementWaitReturn(j))
          /\ WF_vars(DeleteManifestReturn(j))

\* C33: a call of runSync() terminates, also when batches keep failing.
C33_RunSyncTerminates == (nlPc = "list") ~> (nlPc = "idle")

\* ---------------------------------------------------------------------
\* CleverTapCsvToSqsService.streamCsvToSqs: rows of one CSV file to the queue
\* ---------------------------------------------------------------------

NumRows == 5

\* CLEVERTAP_SQS_BATCH_SIZE, and the two fixed sizes of the line handler and
\* of flushBatch
rowsPerMessage == 2
minFlushSize == 5
targetChunkLimit == 5

CsvRows == 1..NumRows

\* one flushBatch() call per line handler, and one of the close handler
CloseFlush == NumRows + 1
Flushes == 1..CloseFlush

\* the line handler flushes once the batch has reached one of its sizes
FlushDue(batch) == Len(batch) >= minFlushSize \/ Len(batch) >= rowsPerMessage

\* the promise is settled by the first resolve or reject only
SettleStream(result) == IF streamResult = "pending" THEN result ELSE streamResult

\* flushBatch() up to its first await: the chunks of the batch as it is now
BeginFlush(f, batch) ==
    /\ flushChunks' = [flushChunks EXCEPT
                          ![f] = chunkArray(batch, Min(Len(batch), targetChunkLimit))]
    /\ flushPc' = [flushPc EXCEPT ![f] = "send"]

\* the line handler of the next data line: the row joins the batch and, when
\* a flush is due, flushBatch() is called and awaits its first push
LineArrives ==
    /\ csvArrived < NumRows
    /\ ~csvClosed
    /\ csvArrived' = csvArrived + 1
    /\ csvBatch' = Append(csvBatch, csvArrived + 1)
    /\ IF FlushDue(csvBatch')
       THEN BeginFlush(csvArrived + 1, csvBatch')
       ELSE UNCHANGED <<flushPc, flushChunks>>
    /\ UNCHANGED <<core, eventbuffer, retention, nonlending, csvClosed, csvSent, messageCount,
                   streamResult>>

\* batchPushToQueue() of the first remaining chunk returns or throws: the
\* next chunk is pushed, or the batch is cleared and flushBatch() returns; the
\* close handler then resolves the promise. A throw rejects the promise.
PushReturn(f, threw) ==
    /\ flushPc[f] = "send"
    /\ IF threw
       THEN /\ flushPc' = [flushPc EXCEPT ![f] = "done"]
            /\ flushChunks' = [flushChunks EXCEPT ![f] = <<>>]
            /\ streamResult' = SettleStream("rejected")
            /\ UNCHANGED <<csvSent, messageCount, csvBatch>>
       ELSE /\ csvSent' = [r \in CsvRows |->
                              csvSent[r] + Occurrences(Head(flushChunks[f]), r)]
            /\ messageCount' = messageCount + 1
            /\ flushChunks' = [flushChunks EXCEPT ![f] = Tail(flushChunks[f])]
            /\ IF Len(flushChunks[f]) > 1
               THEN UNCHANGED <<flushPc, csvBatch, streamResult>>
               ELSE /\ flushPc' = [flushPc EXCEPT ![f] = "done"]
                    /\ csvBatch' = <<>>
                    /\ streamResult' = IF f = CloseFlush THEN SettleStream("resolved")
                                       ELSE streamResult
    /\ UNCHANGED <<core, eventbuffer, retention, nonlending, csvArrived, csvClosed>>

\* the close handler, after the last line: flushBatch() returns at once on
\* an empty batch and the promise is resolved, or it awaits its first push
CloseArrives ==
    /\ csvArrived = NumRows
    /\ ~csvClosed
    /\ csvClosed' = TRUE
    /\ IF Len(csvBatch) = 0
       THEN /\ streamResult' = SettleStream("resolved")
            /\ UNCHANGED <<flushPc, flushChunks>>
       ELSE /\ BeginFlush(CloseFlush, csvBatch)
            /\ UNCHANGED streamResult
    /\ UNCHANGED <<core, eventbuffer, retention, nonlending, csvArrived, csvBatch, csvSent,
                   messageCount>>

InitCsvStream ==
    /\ PipelineIdle
    /\ SchemaIdle
    /\ PollingIdle
    /\ FileSyncIdle
    /\ LifecycleIdle
    /\ EventBufferIdle
    /\ RetentionIdle
    /\ NonLendingIdle
    /\ EventBufferIdle
    /\ csvArrived = 0
    /\ csvClosed = FALSE
    /\ csvBatch = <<>>
    /\ flushPc = [f \in Flushes |-> "idle"]
    /\ flushChunks = [f \in Flushes |-> <<>>]
    /\ csvSent = [r \in CsvRows |-> 0]
    /\ messageCount = 0
    /\ streamResult = "pending"

NextCsvStream ==
    \/ LineArrives
    \/ CloseArrives
    \/ \E f \in Flushes, threw \in BOOLEAN : PushReturn(f, threw)

SpecCsvStream == InitCsvStream /\ [][NextCsvStream]_vars

\* C35: when the stream resolves, every data row of the file has been pushed
\* to the queue in exactly one message.
C35_EveryRowOnce ==
    streamResult = "resolved" => \A r \in CsvRows : csvSent[r] = 1

\* ---------------------------------------------------------------------
\* S3Service: the event buffer of uploadEvent and flushBatch
\* ---------------------------------------------------------------------

NumEvents == 4

\* S3_BATCH_SIZE
s3BatchSize == 2

\* events are numbered in the order of their arrival
Events == 1..NumEvents

\* flushBatch() up to its await of PutObject: returns 'empty' on an empty
\* buffer; otherwise clears the timer and takes the whole buffer
flushBatch(buffer) ==
    IF Len(buffer) = 0
    THEN UNCHANGED <<batchTimer, inFlight>> /\ batchBuffer' = buffer
    ELSE /\ batchTimer' = "none"
         /\ inFlight' = inFlight \cup {buffer}
         /\ batchBuffer' = <<>>

\* uploadEvent(event): the event joins the buffer; a full buffer is flushed,
\* otherwise the flush timer is started unless one is set
uploadEvent ==
    /\ nextEvent < NumEvents
    /\ nextEvent' = nextEvent + 1
    /\ IF Len(batchBuffer) + 1 >= s3BatchSize
       THEN flushBatch(Append(batchBuffer, nextEvent + 1))
       ELSE /\ batchBuffer' = Append(batchBuffer, nextEvent + 1)
            /\ batchTimer' = IF batchTimer = "none" THEN "armed" ELSE batchTimer
            /\ UNCHANGED inFlight
    /\ UNCHANGED <<core, retention, nonlending, csvstream, uploadedFiles>>

\* the flush timer runs its callback, flushBatch()
FlushTimerFires ==
    /\ batchTimer = "armed"
    /\ IF Len(batchBuffer) = 0
       THEN batchTimer' = "fired" /\ UNCHANGED <<batchBuffer, inFlight>>
       ELSE flushBatch(batchBuffer)
    /\ UNCHANGED <<core, retention, nonlending, csvstream, nextEvent, uploadedFiles>>

\* the upload in flight whose first event is e
FlightOf(e) == CHOOSE events \in inFlight : Head(events) = e

\* PutObject of the flush that starts with event e returns, or throws and
\* the events of the flush are put back at the front of the buffer
PutObjectReturn(e, threw) ==
    /\ \E events \in inFlight : Head(events) = e
    /\ inFlight' = inFlight \ {FlightOf(e)}
    /\ IF threw
       THEN batchBuffer' = FlightOf(e) \o batchBuffer /\ UNCHANGED uploadedFiles
       ELSE uploadedFiles' = Append(uploadedFiles, FlightOf(e)) /\ UNCHANGED batchBuffer
    /\ UNCHANGED <<core, retention, nonlending, csvstream, nextEvent, batchTimer>>

InitEventBuffer ==
    /\ PipelineIdle
    /\ SchemaIdle
    /\ PollingIdle
    /\ FileSyncIdle
    /\ LifecycleIdle
    /\ RetentionIdle
    /\ NonLendingIdle
    /\ CsvStreamIdle
    /\ nextEvent = 0
    /\ batchBuffer = <<>>
    /\ batchTimer = "none"
    /\ inFlight = {}
    /\ uploadedFiles = <<>>

NextEventBuffer ==
    \/ uploadEvent
    \/ FlushTimerFires
    \/ \E e \in Events, threw \in BOOLEAN : PutObjectReturn(e, threw)

SpecEventBuffer == InitEventBuffer /\ [][NextEventBuffer]_vars

\* the number of places that hold event e: the buffer, the uploads in flight
\* and the objects written
TimesHeld(e) ==
    Occurrences(batchBuffer, e)
    + Cardinality({events \in inFlight : e \in Range(events)})
    + SumSeq([i \in 1..Len(uploadedFiles) |-> Occurrences(uploadedFiles[i], e)])

\* the events of the sequence are in the order of their arrival
InArrivalOrder(events) ==
    \A i, j \in 1..Len(events) : i < j => events[i] < events[j]

\* C36: no accepted event is lost or duplicated, and the buffer keeps the
\* events in the order of their arrival, also after uploads have failed and
\* their events were put back.
C36_FailedFlushRestores ==
    /\ \A e \in Events : TimesHeld(e) = IF e <= nextEvent THEN 1 ELSE 0
    /\ InArrivalOrder(batchBuffer)

\* C37: whenever the buffer holds events, a flush timer is armed or an
\* upload is in flight, so that the events are uploaded without another
\* arrival.
C37_BufferAlwaysDrains ==
    Len(batchBuffer) > 0 => batchTimer = "armed" \/ inFlight # {}

====
